---------------------------- MODULE Spec2Model ----------------------------
(***************************************************************************)
(* A model of the slircd-ng end-to-end test client                         *)
(* (src/tests/e2e/irc_client.py): the IrcMessage parser and one IrcClient  *)
(* session talking to a server over one stream.                            *)
(*                                                                         *)
(* Text is modelled as a sequence of one-character strings, so that the    *)
(* parser's splitting, stripping and replacing are computed character by   *)
(* character as Python computes them.                                      *)
(***************************************************************************)
EXTENDS Integers, Sequences, FiniteSets, TLC

VARIABLES
    pin,        \* parser run: the input descriptor the line is built from
    pout,       \* parser run: the outcome of IrcMessage.parse, or NotRun
    now,        \* time.time(), counted from the start of the call in progress
    hasStream,  \* self._reader and self._writer are set
    writerOpen, \* the writer's transport has not been closed by this side
    connected,  \* self._connected
    registered, \* self._registered
    wire,       \* every line the server has written to this Session, in order
    nread,      \* how many lines of wire the reader has consumed
    eof,        \* the reader is at end of stream once the unread lines are read
    call,       \* the call of the scenario in progress (the name of the last one)
    phase,      \* "idle", "loop" (at a while test) or "recv" (awaiting readline)
    deadline,   \* the deadline local of expect / recv_all
    rdl,        \* the time at which the wait_for of the recv in progress expires
    acc,        \* the messages local of recv_all (positions in wire)
    sent,       \* the lines the call has written to the writer
    result,     \* what the last call returned or raised
    handed,     \* the positions in wire of the messages returned to the scenario
    nread0,     \* nread when the call began
    caps_available, \* self._caps_available
    caps_enabled,   \* self._caps_enabled
    clients,    \* manager: self.clients, the (name, Session) entries in dict order
    sess,       \* manager: the state of every Session the manager has constructed
    scope,      \* manager: where the async-with block stands
    pending,    \* manager: the exception raised inside the block, if any
    outcome,    \* manager: what the async-with statement ended with
    streams,    \* chat: the lines the server has delivered to each Session
    readPos,    \* chat: how many of them each Session's reader has consumed
    outbox,     \* chat: the lines the server has still to deliver to each Session
    inbox,      \* chat: the lines written by the Sessions the server has not handled
    step,       \* chat: the call of the test the scenario is at
    wait,       \* chat: "none", "loop" (at a while test) or "recv" (awaiting readline)
    tnow,       \* chat: time.time(), counted from the start of the call in progress
    tdeadline,  \* chat: the deadline local of the recv_all / expect in progress
    trdl,       \* chat: the time at which the wait_for of the recv in progress expires
    got,        \* chat: what the last recv_all or expect returned or raised
                \*       (the messages local of a recv_all in progress)
    at,         \* runner: where main / run_tests / run_test stands
    test_files, \* runner: how many test files main hands to run_tests
    current,    \* runner: the position in test_files of the file of the loop
    raised,     \* runner: what subprocess.run raised in the run_test in progress
    returncode, \* runner: result.returncode of the run_test in progress, or None
    status,     \* runner: the status run_test returns
    journal,    \* runner: what the run_test in progress has done, in order
    lingering,  \* runner: whether a server process of the user is alive
    passed,     \* runner: self.passed
    failed,     \* runner: self.failed
    skipped,    \* runner: self.skipped
    errors,     \* runner: the keys of self.errors
    exitcode    \* runner: what main returned, or None

pvars == <<pin, pout>>
svars == <<now, hasStream, writerOpen, connected, registered, wire, nread, eof,
           call, phase, deadline, rdl, acc, sent, result, handed, nread0>>
cvars == <<caps_available, caps_enabled>>
mvars == <<clients, sess, scope, pending, outcome>>
\* What no step of the single Session touches.
tvars == <<streams, readPos, outbox, inbox, step, wait, tnow, tdeadline, trdl, got>>
rvars == <<at, test_files, current, raised, returncode, status, journal,
           lingering, passed, failed, skipped, errors, exitcode>>
xvars == <<pvars, mvars, tvars, rvars>>
vars == <<pvars, svars, cvars, mvars, tvars, rvars>>

-----------------------------------------------------------------------------
(* Python string primitives over sequences of characters.                  *)

Min(S) == CHOOSE x \in S : \A y \in S : x <= y

\* The smallest index at which sub occurs in s, 0 when it does not (str.find + 1).
Find(s, sub) ==
    LET I == {i \in 1..(Len(s) - Len(sub) + 1) : SubSeq(s, i, i + Len(sub) - 1) = sub}
    IN  IF I = {} THEN 0 ELSE Min(I)

\* s.startswith(sub)
StartsWith(s, sub) == Len(s) >= Len(sub) /\ SubSeq(s, 1, Len(sub)) = sub

\* s.endswith(sub)
EndsWith(s, sub) ==
    Len(s) >= Len(sub) /\ SubSeq(s, Len(s) - Len(sub) + 1, Len(s)) = sub

\* s.rstrip(chars): drops every trailing character that is in chars.
RECURSIVE RStrip(_, _)
RStrip(s, chars) ==
    IF s # <<>> /\ s[Len(s)] \in chars THEN RStrip(SubSeq(s, 1, Len(s) - 1), chars) ELSE s

\* s.split(sep, 1): one piece when sep is absent, else the text before and after
\* its first occurrence.
SplitOnce(s, sep) ==
    LET i == Find(s, sep)
    IN  IF i = 0 THEN <<s>>
        ELSE <<SubSeq(s, 1, i - 1), SubSeq(s, i + Len(sep), Len(s))>>

\* s.split(sep): every piece between occurrences of sep, empty pieces kept.
RECURSIVE SplitAll(_, _)
SplitAll(s, sep) ==
    LET i == Find(s, sep)
    IN  IF i = 0 THEN <<s>>
        ELSE <<SubSeq(s, 1, i - 1)>> \o SplitAll(SubSeq(s, i + Len(sep), Len(s)), sep)

\* The characters of the model's alphabet that str.split() and str.isspace()
\* treat as whitespace.
Whitespace == {" ", "\t", "\n", "\r", "\f"}

\* s.split() with no argument: the maximal runs of non-whitespace characters.
RECURSIVE SplitWs(_)
SplitWs(s) ==
    IF s = <<>> THEN <<>>
    ELSE IF s[1] \in Whitespace THEN SplitWs(Tail(s))
    ELSE LET W == {i \in 1..Len(s) : s[i] \in Whitespace}
             e == IF W = {} THEN Len(s) + 1 ELSE Min(W)
         IN  <<SubSeq(s, 1, e - 1)>> \o SplitWs(SubSeq(s, e, Len(s)))

\* s.replace(old, new): the non-overlapping occurrences of old, left to right.
RECURSIVE ReplaceAll(_, _, _)
ReplaceAll(s, old, new) ==
    LET i == Find(s, old)
    IN  IF i = 0 THEN s
        ELSE SubSeq(s, 1, i - 1) \o new
             \o ReplaceAll(SubSeq(s, i + Len(old), Len(s)), old, new)

UpperChar(c) ==
    CASE c = "a" -> "A" [] c = "b" -> "B" [] c = "c" -> "C" [] c = "d" -> "D"
      [] c = "e" -> "E" [] c = "f" -> "F" [] c = "g" -> "G" [] c = "h" -> "H"
      [] c = "i" -> "I" [] c = "j" -> "J" [] c = "k" -> "K" [] c = "l" -> "L"
      [] c = "m" -> "M" [] c = "n" -> "N" [] c = "o" -> "O" [] c = "p" -> "P"
      [] c = "q" -> "Q" [] c = "r" -> "R" [] c = "s" -> "S" [] c = "t" -> "T"
      [] c = "u" -> "U" [] c = "v" -> "V" [] c = "w" -> "W" [] c = "x" -> "X"
      [] c = "y" -> "Y" [] c = "z" -> "Z" [] OTHER -> c

\* s.upper()
Upper(s) == [i \in 1..Len(s) |-> UpperChar(s[i])]

-----------------------------------------------------------------------------
(* IrcMessage.parse                                                        *)

\* The value of a tag given without "=": Python's True.
TagTrue == <<"True">>
\* prefix = None
NoPrefix == <<"None">>
\* tags = {}
NoTags == [k \in {} |-> <<>>]

\* The exception an unpacking  a, b = s.split(" ", 1)  raises when the split
\* yields one piece.
ParseRaises == [ok |-> FALSE, exc |-> "ValueError"]

\* v.replace("\\:", ";").replace("\\s", " ").replace("\\\\", "\\")
UnescapeTagValue(v) ==
    ReplaceAll(ReplaceAll(ReplaceAll(v, <<"\\", ":">>, <<";">>),
                          <<"\\", "s">>, <<" ">>),
               <<"\\", "\\">>, <<"\\">>)

\* tags[k] = v : a later entry with the same key replaces the earlier one.
DictPut(d, k, v) == [x \in (DOMAIN d) \cup {k} |-> IF x = k THEN v ELSE d[x]]

\* The loop over tag_part.split(";").
RECURSIVE ParseTags(_)
ParseTags(entries) ==
    IF entries = <<>> THEN NoTags
    ELSE LET d   == ParseTags(SubSeq(entries, 1, Len(entries) - 1))
             tag == entries[Len(entries)]
         IN  IF Find(tag, <<"=">>) # 0
             THEN LET kv == SplitOnce(tag, <<"=">>)
                  IN  DictPut(d, kv[1], UnescapeTagValue(kv[2]))
             ELSE DictPut(d, tag, TagTrue)

\* The command and parameters of the line left after tags and prefix.
ParseCommand(raw, tags, prefix, rest) ==
    IF Find(rest, <<" ", ":">>) # 0
    THEN LET ft    == SplitOnce(rest, <<" ", ":">>)
             parts == SplitWs(ft[1])
         IN  [ok |-> TRUE, raw |-> raw, tags |-> tags, prefix |-> prefix,
              command |-> Upper(IF parts # <<>> THEN parts[1] ELSE <<>>),
              params |-> (IF parts # <<>> THEN Tail(parts) ELSE <<>>) \o <<ft[2]>>]
    ELSE LET parts == SplitWs(rest)
         IN  [ok |-> TRUE, raw |-> raw, tags |-> tags, prefix |-> prefix,
              command |-> Upper(IF parts # <<>> THEN parts[1] ELSE <<>>),
              params |-> IF parts # <<>> THEN Tail(parts) ELSE <<>>]

\* The prefix step and what follows it.
ParsePrefix(raw, tags, rest) ==
    IF StartsWith(rest, <<":">>)
    THEN LET sp == SplitOnce(Tail(rest), <<" ">>)
         IN  IF Len(sp) < 2 THEN ParseRaises
             ELSE ParseCommand(raw, tags, sp[1], sp[2])
    ELSE ParseCommand(raw, tags, NoPrefix, rest)

\* IrcMessage.parse(line)
Parse(line) ==
    LET stripped == RStrip(line, {"\r", "\n"})
    IN  IF StartsWith(stripped, <<"@">>)
        THEN LET sp == SplitOnce(Tail(stripped), <<" ">>)
             IN  IF Len(sp) < 2 THEN ParseRaises
                 ELSE ParsePrefix(line, ParseTags(SplitAll(sp[1], <<";">>)), sp[2])
        ELSE ParsePrefix(line, NoTags, stripped)


-----------------------------------------------------------------------------
(* The parser run on its own: Init draws a line, ParseStep parses it.      *)

MaxTagLen == 2      \* longest tag value drawn
MaxTrailLen == 2    \* longest trailing parameter drawn
MaxMids == 2        \* most leading parameters drawn

SeqsUpTo(S, n) == UNION {[1..k -> S] : k \in 0..n}

CRLF == <<"\r", "\n">>

NotRun == [ok |-> FALSE, exc |-> "not run"]

RECURSIVE JoinWith(_, _)
JoinWith(parts, sep) ==
    IF parts = <<>> THEN <<>>
    ELSE IF Len(parts) = 1 THEN parts[1]
    ELSE parts[1] \o sep \o JoinWith(Tail(parts), sep)

\* The wire escaping of a tag value that the parser's unescaping undoes:
\* ";" as "\:", " " as "\s", "\" as "\\", every other character as itself.
RECURSIVE EscapeTagValue(_)
EscapeTagValue(v) ==
    IF v = <<>> THEN <<>>
    ELSE (CASE v[1] = ";"  -> <<"\\", ":">>
            [] v[1] = " "  -> <<"\\", "s">>
            [] v[1] = "\\" -> <<"\\", "\\">>
            [] OTHER       -> <<v[1]>>) \o EscapeTagValue(Tail(v))

TagKey == <<"k">>
TagAlphabet == {";", " ", "\\", "s", ":"}
TrailAlphabet == {" ", ":", "x"}
MidParams == {<<"#", "c">>, <<"a", ":", "b">>, <<"a", "\t", "b">>}
Commands == {<<"p", "r", "i", "v", "m", "s", "g">>, <<"0", "0", "1">>}
Prefixes == {<<"n", "!", "u", "@", "h">>}

\* Lines that lack the structure the parser looks for.
MalformedLines ==
    {<<>>, CRLF, <<" ">>,
     <<"@", "t">>, <<"@", "t">> \o CRLF, <<"@", "t", " ">>,
     <<":", "p">>, <<":", "p">> \o CRLF, <<":", "p", " ">>,
     <<"@", "t", " ", ":", "p">>}

Descriptor(kind, tagval, prefix, cmd, mids, trail, rawline) ==
    [kind |-> kind, tagval |-> tagval, prefix |-> prefix, cmd |-> cmd,
     mids |-> mids, trail |-> trail, rawline |-> rawline]

\* @k=<escaped value>;f :prefix command mid ... :trailing CRLF
WellFormedLine(tagval, prefix, cmd, mids, trail) ==
    <<"@">> \o TagKey \o <<"=">> \o EscapeTagValue(tagval) \o <<";", "f", " ">>
    \o <<":">> \o prefix \o <<" ">>
    \o JoinWith(<<cmd>> \o mids, <<" ">>)
    \o <<" ", ":">> \o trail \o CRLF

ParseInputs ==
    {Descriptor("malformed", <<>>, <<>>, <<>>, <<>>, <<>>, l) : l \in MalformedLines}
    \cup
    {Descriptor("tagged", v, <<"n">>, <<"c">>, <<>>, <<>>,
                WellFormedLine(v, <<"n">>, <<"c">>, <<>>, <<>>)) :
        v \in SeqsUpTo(TagAlphabet, MaxTagLen)}
    \cup
    UNION {UNION {UNION {
        {Descriptor("wellformed", <<"v">>, p, c, m, t, WellFormedLine(<<"v">>, p, c, m, t)) :
            t \in SeqsUpTo(TrailAlphabet, MaxTrailLen)} :
        m \in SeqsUpTo(MidParams, MaxMids)} : c \in Commands} : p \in Prefixes}


-----------------------------------------------------------------------------
(* One IrcClient session.                                                  *)

MaxTime == 3        \* the clock stops here
MaxStream == 3      \* most lines the server writes
SessionTimeout == 2 \* self.timeout, the constructor's timeout argument
MaxTimeoutArg == 1  \* the largest timeout a call is given
HelperTimeout == 1  \* the timeout=5 of cap_ls, cap_req and whois, on the model's clock

\* An optional argument: <<>> is None, <<x>> is the value x.
None == <<>>
Some(x) == <<x>>

\* The lines the server may write.
Welcome == <<"0", "0", "1">> \o CRLF
PingLine == <<"p", "i", "n", "g", " ", ":", "0", "0", "1">> \o CRLF
PrefixOnly == <<":", "p">> \o CRLF
ServerLines == {Welcome, PingLine, PrefixOnly}

\* The lines the server may write while capabilities are negotiated and WHOIS
\* is answered.
Sasl == <<"s", "a", "s", "l">>
LsMore == <<"C", "A", "P", " ", "*", " ", "L", "S", " ", "*", " ", ":", "a", "=", "1">> \o CRLF
LsLast == <<"C", "A", "P", " ", "*", " ", "L", "S", " ", ":">> \o Sasl \o CRLF
Ack == <<"C", "A", "P", " ", "*", " ", "A", "C", "K", " ", ":">> \o Sasl \o CRLF
Nak == <<"C", "A", "P", " ", "*", " ", "N", "A", "K", " ", ":">> \o Sasl \o CRLF
WhoisUser == <<":", "s", "3", "1", "8", " ", "3", "1", "1", " ", "n">> \o CRLF
EndOfWhois == <<"3", "1", "8">> \o CRLF
HelperLines == {LsMore, LsLast, Ack, Nak, WhoisUser, EndOfWhois}

\* What the scenario may pass.
TimeoutArgs == {None} \cup {Some(t) : t \in 0..MaxTimeoutArg}
WindowArgs == 0..MaxTimeoutArg
Search(text) == [anchored |-> FALSE, text |-> text]
\* A slip in expect_numeric: the pattern is the bare numeric, f"{numeric}".
Unanchored(text) == [anchored |-> FALSE, text |-> text]
\* f"^{numeric}$"
Anchored(text) == [anchored |-> TRUE, text |-> text]
PatternArgs == {Search(<<"0", "0", "1">>), Search(<<"z">>)}
FieldArgs == {"command", "raw"}
PasswordArgs == {None, Some(<<>>), Some(<<"p", "w">>)}
CommandArgs == {<<"X">>, <<"X">> \o CRLF, <<"X", "\n">>}
Nick == <<"n">>
UserName == <<"u">>
RealName == <<"R", " ", "N">>
CapabilityArgs == {<<Sasl>>}
NumericArgs == {<<<<"3", "1", "8">>, <<"4", "0", "1">>>>}

\* timeout or self.timeout
TimeoutOr(t, default) == IF t = None \/ t[1] = 0 THEN default ELSE t[1]

\* The pattern "a.*b": a, then any characters but a newline, then b.
Sequenced(a, b) == [anchored |-> FALSE, text |-> a, then |-> b]

\* re.search("a.*b", s): some occurrence of b begins behind some occurrence of
\* a, with no newline between the two.
FindThen(s, a, b) ==
    \E i, j \in 1..Len(s) :
        /\ i + Len(a) <= j
        /\ j + Len(b) - 1 <= Len(s)
        /\ SubSeq(s, i, i + Len(a) - 1) = a
        /\ SubSeq(s, j, j + Len(b) - 1) = b
        /\ \A k \in (i + Len(a))..(j - 1) : s[k] # "\n"

\* pattern.search(value) for a pattern compiled with re.IGNORECASE: the text
\* anywhere in the value, or, for "^text$", the whole value (a final newline
\* allowed after it), or, for "a.*b", a with b behind it.
RegexSearch(pattern, value) ==
    IF pattern.anchored
    THEN Upper(value) \in {Upper(pattern.text), Upper(pattern.text) \o <<"\n">>}
    ELSE IF "then" \in DOMAIN pattern
    THEN FindThen(Upper(value), Upper(pattern.text), Upper(pattern.then))
    ELSE Find(Upper(value), Upper(pattern.text)) # 0

\* str(getattr(msg, field, msg.raw))
FieldValue(msg, field) ==
    CASE field = "command" -> msg.command
      [] field = "prefix"  -> IF msg.prefix = NoPrefix THEN <<"N", "o", "n", "e">>
                              ELSE msg.prefix
      [] OTHER             -> msg.raw

\* The message recv makes of the line at position pos of wire.
MsgAt(pos) == Parse(wire[pos])

\* A call and its arguments; arg is the argument that is neither pattern, field
\* nor timeout (register's password, cap_req's capabilities, expect_any's
\* patterns).
Call(name, pattern, field, timeout, arg) ==
    [name |-> name, pattern |-> pattern, field |-> field, timeout |-> timeout,
     arg |-> arg]
NoCall == Call("", Search(<<>>), "", 0, None)

Outcome(kind, exc, msgs) == [kind |-> kind, exc |-> exc, msgs |-> msgs]
NoOutcome == Outcome("", "", <<>>)
Returned == Outcome("return", "", <<>>)
ReturnedNone == Outcome("None", "", <<>>)
ReturnedMsg(pos) == Outcome("msg", "", <<pos>>)
ReturnedList(ps) == Outcome("list", "", ps)
Raised(exc) == Outcome("raise", exc, <<>>)
\* cap_ls returns the set it stores in caps_available; cap_req returns a bool.
ReturnedSet == Outcome("set", "", <<>>)
ReturnedBool(b) == Outcome(IF b THEN "True" ELSE "False", "", <<>>)

\* command += "\r\n" unless it ends with it already
WireBytes(command) == IF EndsWith(command, CRLF) THEN command ELSE command \o CRLF

\* f"PONG :{server}"
PongLine(msg) ==
    <<"P", "O", "N", "G", " ", ":">> \o (IF msg.params # <<>> THEN msg.params[1] ELSE <<>>)

\* A slip in register: the password is sent after NICK and USER.
RegisterLinesPassLast(password) ==
    <<WireBytes(<<"N", "I", "C", "K", " ">> \o Nick),
      WireBytes(<<"U", "S", "E", "R", " ">> \o UserName
                \o <<" ", "0", " ", "*", " ", ":">> \o RealName)>>
    \o (IF password # None /\ password[1] # <<>>
        THEN <<WireBytes(<<"P", "A", "S", "S", " ">> \o password[1])>> ELSE <<>>)

\* The lines register writes before it waits.
RegisterLines(password) ==
    (IF password # None /\ password[1] # <<>>
     THEN <<WireBytes(<<"P", "A", "S", "S", " ">> \o password[1])>> ELSE <<>>)
    \o <<WireBytes(<<"N", "I", "C", "K", " ">> \o Nick),
         WireBytes(<<"U", "S", "E", "R", " ">> \o UserName
                   \o <<" ", "0", " ", "*", " ", ":">> \o RealName)>>

QuitLine == WireBytes(<<"Q", "U", "I", "T", " ", ":", "G", "o", "o", "d", "b", "y", "e">>)

\* A slip in the reader: the line is looked at and left in place.
AfterReadPeek(n) == n

\* readline hands each line out once: the reader moves past it.
AfterRead(n) == n + 1

\* A slip in the loop: every recv is given the whole timeout again.
RemainingWhole == call.timeout

\* remaining = deadline - time.time()
Remaining == deadline - now

\* A slip in recv: the flag is left as it was on an empty read.
ConnectedAfterEofKept == connected

\* self._connected = False, on an empty read
ConnectedAfterEof == FALSE

\* A slip in expect: the first message is returned whatever it is.
ExpectAcceptsAny(msg) == TRUE

\* if pattern.search(str(value)): return msg
ExpectAccepts(msg) == RegexSearch(call.pattern, FieldValue(msg, call.field))

\* A slip in recv_all: None is skipped as in expect, the loop goes on.
RecvAllNeverBreaks(pos) == FALSE

\* recv_all: a message is collected, None ends the loop.
RecvAllBreaks(pos) == pos = 0

InitSession ==
    /\ now = 0
    /\ hasStream = FALSE
    /\ writerOpen = FALSE
    /\ connected = FALSE
    /\ registered = FALSE
    /\ wire = <<>>
    /\ nread = 0
    /\ eof = FALSE
    /\ call = NoCall
    /\ phase = "idle"
    /\ deadline = 0
    /\ rdl = 0
    /\ acc = <<>>
    /\ sent = <<>>
    /\ result = NoOutcome
    /\ handed = <<>>
    /\ nread0 = 0
    /\ caps_available = {}
    /\ caps_enabled = {}

\* The call ends: it returns or raises.
Complete(r, h, reg) ==
    /\ phase' = "idle"
    /\ result' = r
    /\ handed' = h
    /\ registered' = reg
    /\ now' = 0
    /\ deadline' = 0
    /\ rdl' = 0
    /\ acc' = <<>>
    /\ call' = Call(call.name, Search(<<>>), "", 0, None)

\* The call goes back to its while test.
Continue(a) ==
    /\ phase' = "loop"
    /\ acc' = a
    /\ rdl' = 0
    /\ UNCHANGED <<now, call, deadline, result, handed, registered>>

\* A call of the scenario begins.
Begin(c) ==
    /\ phase = "idle"
    /\ call' = c
    /\ acc' = <<>>

\* name, _ = cap.split("=", 1) for a capability given as name=value
CapName(cap) == IF Find(cap, <<"=">>) # 0 THEN SplitOnce(cap, <<"=">>)[1] ELSE cap

\* The names in cap_str, the last parameter of a CAP LS reply.
CapNames(cap_str) == {CapName(SplitWs(cap_str)[i]) : i \in 1..Len(SplitWs(cap_str))}

\* The local caps of cap_ls: the names of the LS replies it has taken.
CapsOf(ps) ==
    UNION {CapNames(MsgAt(ps[i]).params[Len(MsgAt(ps[i]).params)]) : i \in 1..Len(ps)}

\* if len(msg.params) >= 3 and msg.params[1] == "LS"
IsLsReply(msg) == Len(msg.params) >= 3 /\ msg.params[2] = <<"L", "S">>

\* if msg.params[1] != "*": break
CapLsBreaks(msg) == msg.params[2] # <<"*">>

\* if len(msg.params) >= 2 and msg.params[1] == "ACK"
IsAck(msg) == Len(msg.params) >= 2 /\ msg.params[2] = <<"A", "C", "K">>

\* A slip in whois: the loop does not look for the end of the reply.
EndsWhoisNever(msg) == FALSE

\* if msg.command in ("318", "401")
EndsWhois(msg) == msg.command \in {<<"3", "1", "8">>, <<"4", "0", "1">>}

\* A slip in expect_any: only the first pattern is tried.
ExpectAnyAcceptsFirst(msg) ==
    \/ RegexSearch(Search(call.arg[1][1]), msg.command)
    \/ RegexSearch(Search(call.arg[1][1]), msg.raw)

\* expect_any: pattern.search(msg.command) or pattern.search(msg.raw), for any
\* of the patterns.
ExpectAnyAccepts(msg) ==
    \E i \in 1..Len(call.arg[1]) :
        \/ RegexSearch(Search(call.arg[1][i]), msg.command)
        \/ RegexSearch(Search(call.arg[1][i]), msg.raw)

\* cap_ls with the CAP message its expect returned: an LS reply is added to
\* caps and ends the loop by line 307, any other reply leads to the next expect.
HandleCapLs(pos) ==
    LET msg == MsgAt(pos)
        taken == IF IsLsReply(msg) THEN Append(acc, pos) ELSE acc
    IN  IF IsLsReply(msg) /\ CapLsBreaks(msg)
        THEN /\ Complete(ReturnedSet, handed, registered)
             /\ caps_available' = CapsOf(taken)
             /\ caps_enabled' = caps_enabled
        ELSE /\ phase' = "loop"
             /\ acc' = taken
             /\ rdl' = 0
             /\ deadline' = now + HelperTimeout
             /\ UNCHANGED <<now, call, result, handed, registered, cvars>>

\* cap_req with the CAP message its expect returned.
HandleCapReq(pos) ==
    /\ Complete(ReturnedBool(IsAck(MsgAt(pos))), handed, registered)
    /\ caps_enabled' = IF IsAck(MsgAt(pos))
                       THEN caps_enabled \cup {call.arg[1][i] : i \in 1..Len(call.arg[1])}
                       ELSE caps_enabled
    /\ caps_available' = caps_available

\* whois with what its recv(timeout=5) returned.
HandleWhois(pos) ==
    IF pos = 0
    THEN Complete(ReturnedList(acc), handed \o acc, registered)
    ELSE IF EndsWhois(MsgAt(pos))
    THEN Complete(ReturnedList(Append(acc, pos)), handed \o Append(acc, pos), registered)
    ELSE /\ phase' = "recv"
         /\ acc' = Append(acc, pos)
         /\ rdl' = now + HelperTimeout
         /\ UNCHANGED <<now, call, deadline, result, handed, registered>>

\* What the caller of recv does with what recv returns: the message at
\* position pos, or None (pos = 0).
HandleRecv(pos) ==
    IF call.name = "recv"
    THEN /\ IF pos = 0 THEN Complete(ReturnedNone, handed, registered)
            ELSE Complete(ReturnedMsg(pos), Append(handed, pos), registered)
         /\ UNCHANGED cvars
    ELSE IF call.name = "recv_all"
    THEN /\ IF RecvAllBreaks(pos) THEN Complete(ReturnedList(acc), handed \o acc, registered)
            ELSE Continue(IF pos = 0 THEN acc ELSE Append(acc, pos))
         /\ UNCHANGED cvars
    ELSE IF call.name = "whois"
    THEN HandleWhois(pos) /\ UNCHANGED cvars
    ELSE IF call.name = "expect_any"
    THEN /\ IF pos # 0 /\ ExpectAnyAccepts(MsgAt(pos))
            THEN Complete(ReturnedMsg(pos), Append(handed, pos), registered)
            ELSE Continue(acc)
         /\ UNCHANGED cvars
    ELSE IF call.name \in {"cap_ls", "cap_req"}
    THEN IF pos # 0 /\ ExpectAccepts(MsgAt(pos))
         THEN IF call.name = "cap_ls" THEN HandleCapLs(pos) ELSE HandleCapReq(pos)
         ELSE Continue(acc) /\ UNCHANGED cvars
    ELSE /\ IF pos # 0 /\ ExpectAccepts(MsgAt(pos))
            THEN Complete(ReturnedMsg(pos), Append(handed, pos),
                          IF call.name = "register" THEN TRUE ELSE registered)
            ELSE Continue(acc)
         /\ UNCHANGED cvars

\* ---- the scenario's calls ----

\* connect(): the connection is established, or the attempt fails or times out.
Connect ==
    /\ Begin(Call("connect", Search(<<>>), "", 0, None))
    /\ sent' = <<>>
    /\ \/ /\ hasStream' = TRUE
          /\ writerOpen' = TRUE
          /\ connected' = TRUE
          /\ nread' = Len(wire)
          /\ nread0' = Len(wire)
          /\ eof' = FALSE
          /\ result' = Returned
       \/ /\ result' = Raised("ConnectionError")
          /\ nread0' = nread
          /\ UNCHANGED <<hasStream, writerOpen, connected, nread, eof>>
    /\ UNCHANGED <<now, registered, wire, phase, deadline, rdl, handed, cvars, xvars>>

\* A slip in disconnect: the capability sets are emptied with the flags.
DisconnectClearsCaps ==
    /\ Begin(Call("disconnect", Search(<<>>), "", 0, None))
    /\ nread0' = nread
    /\ result' = Returned
    /\ sent' = <<>>
    /\ writerOpen' = FALSE
    /\ eof' = (hasStream \/ eof)
    /\ connected' = FALSE
    /\ registered' = FALSE
    /\ caps_available' = {}
    /\ caps_enabled' = {}
    /\ UNCHANGED <<now, hasStream, wire, nread, phase, deadline, rdl, handed, xvars>>

\* disconnect()
Disconnect ==
    /\ Begin(Call("disconnect", Search(<<>>), "", 0, None))
    /\ nread0' = nread
    /\ result' = Returned
    /\ sent' = <<>>
    /\ writerOpen' = FALSE
    /\ eof' = (hasStream \/ eof)
    /\ connected' = FALSE
    /\ registered' = FALSE
    /\ UNCHANGED <<now, hasStream, wire, nread, phase, deadline, rdl, handed, cvars, xvars>>

\* A slip in quit: what send raises is not caught, and disconnect() is not reached.
QuitUncaught ==
    /\ Begin(Call("quit", Search(<<>>), "", 0, None))
    /\ nread0' = nread
    /\ IF hasStream /\ writerOpen
       THEN /\ result' = Returned
            /\ sent' = <<QuitLine>>
            /\ writerOpen' = FALSE
            /\ eof' = TRUE
            /\ connected' = FALSE
            /\ registered' = FALSE
       ELSE /\ result' = Raised(IF hasStream THEN "ConnectionResetError" ELSE "ConnectionError")
            /\ sent' = <<>>
            /\ UNCHANGED <<writerOpen, eof, connected, registered>>
    /\ UNCHANGED <<now, hasStream, wire, nread, phase, deadline, rdl, handed, cvars, xvars>>

\* quit(): send QUIT with every error swallowed, then disconnect().
Quit ==
    /\ Begin(Call("quit", Search(<<>>), "", 0, None))
    /\ nread0' = nread
    /\ result' = Returned
    /\ sent' = IF hasStream /\ writerOpen THEN <<QuitLine>> ELSE <<>>
    /\ writerOpen' = FALSE
    /\ eof' = (hasStream \/ eof)
    /\ connected' = FALSE
    /\ registered' = FALSE
    /\ UNCHANGED <<now, hasStream, wire, nread, phase, deadline, rdl, handed, cvars, xvars>>

\* send(command)
Send(command) ==
    /\ Begin(Call("send", Search(<<>>), "", 0, None))
    /\ nread0' = nread
    /\ IF ~hasStream
       THEN sent' = <<>> /\ result' = Raised("ConnectionError")
       ELSE IF ~writerOpen
       THEN sent' = <<>> /\ result' = Raised("ConnectionResetError")
       ELSE sent' = <<WireBytes(command)>> /\ result' = Returned
    /\ UNCHANGED <<now, hasStream, writerOpen, connected, registered, wire, nread, eof,
                   phase, deadline, rdl, handed, cvars, xvars>>

\* part(channel, reason): f"PART {channel} :{reason}" if reason else f"PART {channel}"
Part(channel, reason) ==
    Send(<<"P", "A", "R", "T", " ">> \o channel
         \o (IF reason # None /\ reason[1] # <<>> THEN <<" ", ":">> \o reason[1] ELSE <<>>))

\* recv(timeout), up to its wait for a line.
Recv(timeout) ==
    /\ Begin(Call("recv", Search(<<>>), "", TimeoutOr(timeout, SessionTimeout), None))
    /\ nread0' = nread
    /\ sent' = <<>>
    /\ IF ~hasStream
       THEN result' = Raised("ConnectionError") /\ UNCHANGED <<phase, rdl>>
       ELSE /\ result' = NoOutcome
            /\ phase' = "recv"
            /\ rdl' = now + TimeoutOr(timeout, SessionTimeout)
    /\ UNCHANGED <<now, hasStream, writerOpen, connected, registered, wire, nread, eof,
                   deadline, handed, cvars, xvars>>

\* recv_all(timeout), up to its while test.
RecvAll(window) ==
    /\ Begin(Call("recv_all", Search(<<>>), "", window, None))
    /\ nread0' = nread
    /\ result' = NoOutcome
    /\ sent' = <<>>
    /\ deadline' = now + window
    /\ phase' = "loop"
    /\ UNCHANGED <<now, hasStream, writerOpen, connected, registered, wire, nread, eof,
                   rdl, handed, cvars, xvars>>

\* expect(pattern, timeout, field), up to its while test.
Expect(pattern, timeout, field) ==
    /\ Begin(Call("expect", pattern, field, TimeoutOr(timeout, SessionTimeout), None))
    /\ nread0' = nread
    /\ result' = NoOutcome
    /\ sent' = <<>>
    /\ deadline' = now + TimeoutOr(timeout, SessionTimeout)
    /\ phase' = "loop"
    /\ UNCHANGED <<now, hasStream, writerOpen, connected, registered, wire, nread, eof,
                   rdl, handed, cvars, xvars>>

\* expect_numeric(numeric, timeout): expect("^numeric$", timeout, "command")
ExpectNumeric(numeric, timeout) == Expect(Anchored(numeric), timeout, "command")

\* register(password): PASS, NICK and USER, then expect_numeric("001").
Register(password) ==
    /\ Begin(Call("register", Anchored(<<"0", "0", "1">>), "command", SessionTimeout,
                  password))
    /\ nread0' = nread
    /\ IF ~hasStream
       THEN sent' = <<>> /\ result' = Raised("ConnectionError")
            /\ UNCHANGED <<phase, deadline>>
       ELSE IF ~writerOpen
       THEN sent' = <<>> /\ result' = Raised("ConnectionResetError")
            /\ UNCHANGED <<phase, deadline>>
       ELSE /\ sent' = RegisterLines(password)
            /\ result' = NoOutcome
            /\ deadline' = now + SessionTimeout
            /\ phase' = "loop"
    /\ UNCHANGED <<now, hasStream, writerOpen, connected, registered, wire, nread, eof,
                   rdl, handed, cvars, xvars>>

\* A call that writes lines and then waits: send raises on a Session without a
\* writer or with a closed one, otherwise the lines are written and the call
\* goes to its first wait.
SendThenWait(c, lines, toPhase, dl, recvdl) ==
    /\ Begin(c)
    /\ nread0' = nread
    /\ IF ~hasStream
       THEN sent' = <<>> /\ result' = Raised("ConnectionError")
            /\ UNCHANGED <<phase, deadline, rdl>>
       ELSE IF ~writerOpen
       THEN sent' = <<>> /\ result' = Raised("ConnectionResetError")
            /\ UNCHANGED <<phase, deadline, rdl>>
       ELSE /\ sent' = lines
            /\ result' = NoOutcome
            /\ deadline' = dl
            /\ rdl' = recvdl
            /\ phase' = toPhase
    /\ UNCHANGED <<now, hasStream, writerOpen, connected, registered, wire, nread, eof,
                   handed, cvars, xvars>>

\* cap_ls(): CAP LS 302, then expect("CAP", timeout=5) in a loop.
CapLs ==
    SendThenWait(Call("cap_ls", Search(<<"C", "A", "P">>), "command", HelperTimeout, None),
                 <<WireBytes(<<"C", "A", "P", " ", "L", "S", " ", "3", "0", "2">>)>>,
                 "loop", now + HelperTimeout, rdl)

\* cap_req(*capabilities): CAP REQ :names, then one expect("CAP", timeout=5).
CapReq(capabilities) ==
    SendThenWait(Call("cap_req", Search(<<"C", "A", "P">>), "command", HelperTimeout,
                      Some(capabilities)),
                 <<WireBytes(<<"C", "A", "P", " ", "R", "E", "Q", " ", ":">>
                             \o JoinWith(capabilities, <<" ">>))>>,
                 "loop", now + HelperTimeout, rdl)

\* whois(nick): WHOIS nick, then recv(timeout=5) in a loop without a deadline.
Whois(nick) ==
    SendThenWait(Call("whois", Search(<<>>), "", HelperTimeout, None),
                 <<WireBytes(<<"W", "H", "O", "I", "S", " ">> \o nick)>>,
                 "recv", deadline, now + HelperTimeout)

\* A slip in join: the channel is looked for, wherever JOIN is.
JoinPatternChannelOnly(channel) == Search(channel)

\* f"JOIN.*{re.escape(channel)}"
JoinPattern(channel) == Sequenced(<<"J", "O", "I", "N">>, channel)

\* f"JOIN {channel} {key}" if key else f"JOIN {channel}"
JoinCommand(channel, key) ==
    <<"J", "O", "I", "N", " ">> \o channel \o (IF key # None /\ key[1] # <<>> THEN <<" ">> \o key[1] ELSE <<>>)

\* join(channel, key): JOIN, then expect("JOIN.*channel", field="raw").
Join(channel, key) ==
    SendThenWait(Call("join", JoinPattern(channel), "raw", SessionTimeout, None),
                 <<WireBytes(JoinCommand(channel, key))>>,
                 "loop", now + SessionTimeout, rdl)

\* expect_any(patterns, timeout), up to its while test.
ExpectAny(patterns, timeout) ==
    /\ Begin(Call("expect_any", Search(<<>>), "", TimeoutOr(timeout, SessionTimeout),
                  Some(patterns)))
    /\ nread0' = nread
    /\ result' = NoOutcome
    /\ sent' = <<>>
    /\ deadline' = now + TimeoutOr(timeout, SessionTimeout)
    /\ phase' = "loop"
    /\ UNCHANGED <<now, hasStream, writerOpen, connected, registered, wire, nread, eof,
                   rdl, handed, cvars, xvars>>

\* ---- inside a call ----

\* The while test of expect and recv_all, and the call of recv in its body.
LoopStep ==
    /\ phase = "loop"
    /\ IF now < deadline /\ Remaining > 0
       THEN IF ~hasStream
            THEN Complete(Raised("ConnectionError"), handed, registered)
            ELSE /\ phase' = "recv"
                 /\ rdl' = now + Remaining
                 /\ UNCHANGED <<now, call, deadline, acc, result, handed, registered>>
       ELSE IF call.name = "recv_all"
            THEN Complete(ReturnedList(acc), handed \o acc, registered)
            ELSE Complete(Raised("TimeoutError"), handed, registered)
    /\ UNCHANGED <<hasStream, writerOpen, connected, wire, nread, eof, sent,
                   nread0, cvars, xvars>>

\* readline returns a line: recv parses it, answers a PING, and returns the message.
RecvLine ==
    /\ phase = "recv"
    /\ nread < Len(wire)
    /\ nread' = AfterRead(nread)
    /\ LET pos == nread + 1
           msg == MsgAt(pos)
       IN  IF ~msg.ok
           THEN Complete(Raised(msg.exc), handed, registered) /\ sent' = sent
                /\ UNCHANGED cvars
           ELSE IF msg.command = <<"P", "I", "N", "G">> /\ ~writerOpen
           THEN Complete(Raised("ConnectionResetError"), handed, registered) /\ sent' = sent
                /\ UNCHANGED cvars
           ELSE /\ sent' = IF msg.command = <<"P", "I", "N", "G">>
                           THEN Append(sent, WireBytes(PongLine(msg))) ELSE sent
                /\ HandleRecv(pos)
    /\ UNCHANGED <<hasStream, writerOpen, connected, wire, eof, nread0, xvars>>

\* readline returns nothing, the stream being at its end: recv returns None.
RecvEof ==
    /\ phase = "recv"
    /\ nread >= Len(wire)
    /\ eof
    /\ connected' = ConnectedAfterEof
    /\ HandleRecv(0)
    /\ UNCHANGED <<hasStream, writerOpen, wire, nread, eof, sent, nread0, xvars>>

\* wait_for times out: recv returns None.
RecvTimeout ==
    /\ phase = "recv"
    /\ nread >= Len(wire)
    /\ ~eof
    /\ now >= rdl
    /\ HandleRecv(0)
    /\ UNCHANGED <<hasStream, writerOpen, connected, wire, nread, eof, sent,
                   nread0, xvars>>

\* ---- the server and the clock ----

ServerWrite(line) ==
    /\ hasStream
    /\ ~eof
    /\ Len(wire) < MaxStream
    /\ wire' = Append(wire, line)
    /\ UNCHANGED <<now, hasStream, writerOpen, connected, registered, nread, eof, call,
                   phase, deadline, rdl, acc, sent, result, handed, nread0, cvars, xvars>>

ServerClose ==
    /\ hasStream
    /\ ~eof
    /\ eof' = TRUE
    /\ UNCHANGED <<now, hasStream, writerOpen, connected, registered, wire, nread, call,
                   phase, deadline, rdl, acc, sent, result, handed, nread0, cvars, xvars>>

\* Time passes while a call is in progress: while a loop runs before its deadline,
\* and while recv waits for a line before its timeout. (No call reads the clock
\* of an earlier call, so the time between calls is left out.)
Tick ==
    /\ now < MaxTime
    /\ \/ phase = "loop" /\ now < deadline
       \/ phase = "recv" /\ now < rdl /\ nread >= Len(wire) /\ ~eof
    /\ now' = now + 1
    /\ UNCHANGED <<hasStream, writerOpen, connected, registered, wire, nread, eof, call,
                   phase, deadline, rdl, acc, sent, result, handed, nread0, cvars, xvars>>

IdleInput == Descriptor("idle", <<>>, <<>>, <<>>, <<>>, <<>>, <<>>)

\* SafeTestRunner.__init__ and the start of main: nothing has run.
InitRunner ==
    /\ at = "main"
    /\ test_files = 0
    /\ current = 0
    /\ raised = ""
    /\ returncode = None
    /\ status = ""
    /\ journal = <<>>
    /\ lingering = FALSE
    /\ passed = <<>>
    /\ failed = <<>>
    /\ skipped = <<>>
    /\ errors = {}
    /\ exitcode = None

\* MultiClientManager.__init__, before any Session is constructed.
NoException == "none"
InitManager ==
    /\ clients = <<>>
    /\ sess = <<>>
    /\ scope = "idle"
    /\ pending = NoException
    /\ outcome = NoException

\* Two Sessions on one channel, nothing in flight, the test not begun.
Members == {"alice", "bob"}
NoTraffic == [m \in Members |-> <<>>]
InitChatWith(pendingTraffic) ==
    /\ streams = NoTraffic
    /\ readPos = [m \in Members |-> 0]
    /\ outbox = pendingTraffic
    /\ inbox = <<>>
    /\ step = 1
    /\ wait = "none"
    /\ tnow = 0
    /\ tdeadline = 0
    /\ trdl = 0
    /\ got = NoOutcome

Init ==
    /\ InitSession
    /\ InitManager
    /\ InitChatWith(NoTraffic)
    /\ pin = IdleInput
    /\ pout = NotRun
    /\ InitRunner

Next ==
    \/ Connect
    \/ Disconnect
    \/ Quit
    \/ \E c \in CommandArgs : Send(c)
    \/ \E t \in TimeoutArgs : Recv(t)
    \/ \E w \in WindowArgs : RecvAll(w)
    \/ \E p \in PatternArgs, t \in TimeoutArgs, f \in FieldArgs : Expect(p, t, f)
    \/ \E t \in TimeoutArgs : ExpectNumeric(<<"0", "0", "1">>, t)
    \/ \E pw \in PasswordArgs : Register(pw)
    \/ LoopStep
    \/ RecvLine
    \/ RecvEof
    \/ RecvTimeout
    \/ \E l \in ServerLines : ServerWrite(l)
    \/ ServerClose
    \/ Tick

Spec == Init /\ [][Next]_vars

\* ---- the helpers built on expect and recv ----

NextHelpers ==
    \/ Connect
    \/ CapLs
    \/ \E cs \in CapabilityArgs : CapReq(cs)
    \/ Whois(Nick)
    \/ \E ps \in NumericArgs : ExpectAny(ps, None)
    \/ LoopStep
    \/ RecvLine
    \/ RecvEof
    \/ RecvTimeout
    \/ \E l \in HelperLines : ServerWrite(l)
    \/ ServerClose
    \/ Tick

SpecHelpers == Init /\ [][NextHelpers]_vars

\* ---- MultiClientManager and its scope ----

MaxSessions == 3    \* most Sessions the manager constructs

ClientNames == {"alice", "bob"}
ScenarioExceptions == {"AssertionError", "TimeoutError"}

\* IrcClient(host, port, nick) as add_client constructs it: name is the name the
\* nick is made of, broken says that writing to the connection fails (the peer
\* has reset it, or this side has closed it), log lists what was done to the
\* connection while it was torn down, unread counts the lines its reader holds,
\* and the two sets are its own _caps_available and _caps_enabled.
NewSession(name) ==
    [name |-> name, connected |-> FALSE, registered |-> FALSE, broken |-> FALSE,
     log |-> <<>>, unread |-> 0, caps_available |-> {}, caps_enabled |-> {}]

\* self.clients[name]: the index of the entry, 0 when the name is not a key.
EntryOf(name) ==
    IF \E i \in 1..Len(clients) : clients[i].name = name
    THEN CHOOSE i \in 1..Len(clients) : clients[i].name = name
    ELSE 0

\* self.clients[name] = client: a new key goes to the end, a key already there
\* keeps its place and gets the new value.
DictSet(name, sid) ==
    IF EntryOf(name) = 0 THEN Append(clients, [name |-> name, sid |-> sid])
    ELSE [clients EXCEPT ![EntryOf(name)] = [name |-> name, sid |-> sid]]

\* A slip in quit: the error of send is not caught.
QuitLetsThrough == FALSE

\* quit(): except Exception: pass around send
QuitSwallows == TRUE

\* client.quit() on a Session: QUIT is written unless writing fails; the error is
\* swallowed and disconnect() closes the writer and clears both flags.
QuitSession(c) ==
    IF c.broken /\ ~QuitSwallows
    THEN [after |-> c, raised |-> "ConnectionResetError"]
    ELSE [after |-> [c EXCEPT !.connected = FALSE, !.registered = FALSE, !.broken = TRUE,
                              !.log = c.log \o (IF c.broken THEN <<>> ELSE <<"QUIT">>)
                                            \o <<"close">>],
          raised |-> NoException]

\* cleanup(): the loop over self.clients.values() from entry i on, each quit()
\* inside try / except Exception: pass.
RECURSIVE Teardown(_, _)
Teardown(ss, i) ==
    IF i > Len(clients) THEN ss
    ELSE Teardown([ss EXCEPT ![clients[i].sid] = QuitSession(ss[clients[i].sid]).after],
                  i + 1)

\* A slip in __aexit__: it returns a true value.
AexitReturnsTrue == TRUE

\* __aexit__ returns None: the exception of the block is not suppressed.
AexitReturn == FALSE

\* async with MultiClientManager(...) as manager: __aenter__
Aenter ==
    /\ scope = "idle"
    /\ scope' = "body"
    /\ UNCHANGED <<clients, sess, pending, outcome, pvars, svars, cvars, tvars, rvars>>

\* add_client(name, register=...) inside the block. The server decides whether
\* connect() succeeds and whether 001 arrives for register().
AddClient(name, register) ==
    /\ scope = "body"
    /\ Len(sess) < MaxSessions
    /\ LET sid == Len(sess) + 1
           c == NewSession(name)
       IN  \/ \* connect() raises ConnectionError
              /\ sess' = Append(sess, c)
              /\ pending' = "ConnectionError"
              /\ scope' = "raised"
              /\ UNCHANGED clients
           \/ \* connect() returns, register() raises TimeoutError
              /\ register
              /\ sess' = Append(sess, [c EXCEPT !.connected = TRUE])
              /\ pending' = "TimeoutError"
              /\ scope' = "raised"
              /\ UNCHANGED clients
           \/ \* connect() and register() return
              /\ sess' = Append(sess, [c EXCEPT !.connected = TRUE, !.registered = register])
              /\ clients' = DictSet(name, sid)
              /\ UNCHANGED <<pending, scope>>
    /\ UNCHANGED <<outcome, pvars, svars, cvars, tvars, rvars>>

\* Writing to a Session's connection starts to fail: the server has reset it.
ConnectionBreaks(sid) ==
    /\ scope \in {"body", "raised", "ended"}
    /\ sid \in 1..Len(sess)
    /\ sess[sid].connected
    /\ ~sess[sid].broken
    /\ sess' = [sess EXCEPT ![sid].broken = TRUE]
    /\ UNCHANGED <<clients, scope, pending, outcome, pvars, svars, cvars, tvars, rvars>>

\* Scenario code inside the block raises: an assertion fails, an expect times out.
ScenarioRaises(exc) ==
    /\ scope = "body"
    /\ pending' = exc
    /\ scope' = "raised"
    /\ UNCHANGED <<clients, sess, outcome, pvars, svars, cvars, tvars, rvars>>

\* The block runs to its end.
ScenarioEnds ==
    /\ scope = "body"
    /\ scope' = "ended"
    /\ UNCHANGED <<clients, sess, pending, outcome, pvars, svars, cvars, tvars, rvars>>

\* __aexit__: cleanup() tears the Sessions of self.clients down and clears the
\* dict; the exception of the block goes on to the caller unless __aexit__
\* returns a true value.
Aexit ==
    /\ scope \in {"raised", "ended"}
    /\ sess' = Teardown(sess, 1)
    /\ clients' = <<>>
    /\ scope' = "exited"
    /\ outcome' = IF AexitReturn THEN NoException ELSE pending
    /\ UNCHANGED <<pending, pvars, svars, cvars, tvars, rvars>>

NextManager ==
    \/ Aenter
    \/ \E n \in ClientNames, r \in BOOLEAN : AddClient(n, r)
    \/ \E sid \in 1..MaxSessions : ConnectionBreaks(sid)
    \/ \E e \in ScenarioExceptions : ScenarioRaises(e)
    \/ ScenarioEnds
    \/ Aexit

SpecManager == Init /\ [][NextManager]_vars

\* ---- two Sessions on one channel (test_privmsg_to_channel) ----

DrainWindow == 1    \* the timeout=0.5 of the two recv_all calls, on the model's clock
ChatTimeout == 3    \* the timeout=3 of bob's expect
MaxLatency == 2     \* the server handles and delivers a line within this time

JoinLine == <<":", "b", " ", "J", "O", "I", "N", " ", "#", "c">> \o CRLF
NamesLine == <<"3", "5", "3", " ", "b", " ", "=", " ", "#", "c", " ", ":", "a", " ", "b">> \o CRLF
PrivmsgLine == <<":", "a", " ", "P", "R", "I", "V", "M", "S", "G", " ", "#", "c", " ", ":", "H", "i">> \o CRLF

\* What the joins may have left on its way to a Session when the test drains.
InFlight(line) == [line |-> line, age |-> 0]
JoinTraffic == {<<>>, <<InFlight(JoinLine)>>, <<InFlight(JoinLine), InFlight(NamesLine)>>}

\* The calls of the test after the joins, in order.
Script ==
    <<[who |-> "alice", op |-> "recv_all", timeout |-> DrainWindow],
      [who |-> "bob", op |-> "recv_all", timeout |-> DrainWindow],
      [who |-> "alice", op |-> "privmsg", timeout |-> 0],
      [who |-> "bob", op |-> "expect", timeout |-> ChatTimeout]>>
Current == Script[step]
Running == step <= Len(Script) /\ wait # "none"
Unread(m) == readPos[m] < Len(streams[m])

\* A slip in expect: the first message read is returned whatever its command.
ChatAcceptsFirst(line) == TRUE

\* bob.expect("PRIVMSG"): pattern.search(msg.command), re.IGNORECASE
ChatAccepts(line) ==
    RegexSearch(Search(<<"P", "R", "I", "V", "M", "S", "G">>),
                FieldValue(Parse(line), "command"))

\* The lines of the channel, and those of them bob's expect returns.
ChatLines == {JoinLine, NamesLine, PrivmsgLine}
AcceptedLines == {l \in ChatLines : ChatAccepts(l)}

InitChat ==
    /\ InitSession
    /\ InitManager
    /\ pin = IdleInput
    /\ pout = NotRun
    /\ \E ta \in JoinTraffic, tb \in JoinTraffic :
          InitChatWith([m \in Members |-> IF m = "alice" THEN ta ELSE tb])
    /\ InitRunner

\* The call ends and the test goes on to its next call.
ChatReturn(r) ==
    /\ step' = step + 1
    /\ wait' = "none"
    /\ tnow' = 0
    /\ tdeadline' = 0
    /\ trdl' = 0
    /\ got' = r

\* The next call of the test begins: privmsg writes its line and returns,
\* recv_all and expect compute their deadline and go to their while test.
ChatCall ==
    /\ step <= Len(Script)
    /\ wait = "none"
    /\ IF Current.op = "privmsg"
       THEN /\ inbox' = Append(inbox, [from |-> Current.who, line |-> PrivmsgLine, age |-> 0])
            /\ step' = step + 1
            /\ UNCHANGED <<wait, tnow, tdeadline>>
            /\ got' = got
       ELSE /\ wait' = "loop"
            /\ tnow' = 0
            /\ tdeadline' = Current.timeout
            /\ got' = IF Current.op = "recv_all" THEN ReturnedList(<<>>) ELSE got
            /\ UNCHANGED <<inbox, step>>
    /\ UNCHANGED <<streams, readPos, outbox, trdl, pvars, svars, cvars, mvars, rvars>>

\* The while test of recv_all and expect, and the call of recv in its body.
ChatLoop ==
    /\ Running
    /\ wait = "loop"
    /\ IF tnow < tdeadline /\ tdeadline - tnow > 0
       THEN /\ wait' = "recv"
            /\ trdl' = tnow + (tdeadline - tnow)
            /\ UNCHANGED <<step, tnow, tdeadline, got>>
       ELSE IF Current.op = "recv_all"
            THEN ChatReturn(got)
            ELSE ChatReturn(Raised("TimeoutError"))
    /\ UNCHANGED <<streams, readPos, outbox, inbox, pvars, svars, cvars, mvars, rvars>>

\* readline returns a line: recv_all collects it, expect returns it if it matches.
ChatRecvLine ==
    /\ Running
    /\ wait = "recv"
    /\ Unread(Current.who)
    /\ readPos' = [readPos EXCEPT ![Current.who] = @ + 1]
    /\ IF /\ Current.op = "expect"
          /\ streams[Current.who][readPos[Current.who] + 1] \in AcceptedLines
       THEN ChatReturn(ReturnedMsg(readPos[Current.who] + 1))
       ELSE /\ wait' = "loop"
            /\ trdl' = 0
            /\ got' = IF Current.op = "recv_all"
                      THEN ReturnedList(Append(got.msgs, readPos[Current.who] + 1))
                      ELSE got
            /\ UNCHANGED <<step, tnow, tdeadline>>
    /\ UNCHANGED <<streams, outbox, inbox, pvars, svars, cvars, mvars, rvars>>

\* wait_for times out: recv returns None, recv_all breaks, expect continues.
ChatRecvTimeout ==
    /\ Running
    /\ wait = "recv"
    /\ ~Unread(Current.who)
    /\ tnow >= trdl
    /\ IF Current.op = "recv_all"
       THEN ChatReturn(got)
       ELSE /\ wait' = "loop"
            /\ trdl' = 0
            /\ UNCHANGED <<step, tnow, tdeadline, got>>
    /\ UNCHANGED <<streams, readPos, outbox, inbox, pvars, svars, cvars, mvars, rvars>>

\* The server handles a PRIVMSG to the channel: a copy for every other member.
ServerRoute ==
    /\ inbox # <<>>
    /\ outbox' = [m \in Members |->
                    IF m = Head(inbox).from THEN outbox[m]
                    ELSE Append(outbox[m], [line |-> Head(inbox).line, age |-> Head(inbox).age])]
    /\ inbox' = Tail(inbox)
    /\ UNCHANGED <<streams, readPos, step, wait, tnow, tdeadline, trdl, got,
                   pvars, svars, cvars, mvars, rvars>>

\* The server's next line for a Session reaches the Session's reader.
ServerDeliver(m) ==
    /\ outbox[m] # <<>>
    /\ streams' = [streams EXCEPT ![m] = Append(@, Head(outbox[m]).line)]
    /\ outbox' = [outbox EXCEPT ![m] = Tail(@)]
    /\ UNCHANGED <<readPos, inbox, step, wait, tnow, tdeadline, trdl, got,
                   pvars, svars, cvars, mvars, rvars>>

\* Time passes while a recv waits for a line. The Sessions' own steps take no
\* time on this clock, and no line stays with the server longer than MaxLatency.
ChatTick ==
    /\ Running
    /\ wait = "recv"
    /\ ~Unread(Current.who)
    /\ tnow < trdl
    /\ \A i \in 1..Len(inbox) : inbox[i].age < MaxLatency
    /\ \A m \in Members : \A i \in 1..Len(outbox[m]) : outbox[m][i].age < MaxLatency
    /\ tnow' = tnow + 1
    /\ inbox' = [i \in 1..Len(inbox) |-> [inbox[i] EXCEPT !.age = @ + 1]]
    /\ outbox' = [m \in Members |->
                    [i \in 1..Len(outbox[m]) |-> [outbox[m][i] EXCEPT !.age = @ + 1]]]
    /\ UNCHANGED <<streams, readPos, step, wait, tdeadline, trdl, got,
                   pvars, svars, cvars, mvars, rvars>>

NextChat ==
    \/ ChatCall
    \/ ChatLoop
    \/ ChatRecvLine
    \/ ChatRecvTimeout
    \/ ServerRoute
    \/ \E m \in Members : ServerDeliver(m)
    \/ ChatTick

\* The event loop runs whatever is ready, the server handles what it has
\* received, and time goes on.
SpecChat == InitChat /\ [][NextChat]_vars /\ WF_vars(NextChat)

\* ---- the parser on its own ----

InitParse ==
    /\ InitSession
    /\ InitManager
    /\ InitChatWith(NoTraffic)
    /\ pin \in ParseInputs
    /\ pout = NotRun
    /\ InitRunner

\* IrcMessage.parse is applied to the line drawn.
ParseStep ==
    /\ pout = NotRun
    /\ pout' = Parse(pin.rawline)
    /\ pin' = pin
    /\ UNCHANGED <<svars, cvars, mvars, tvars, rvars>>

NextParse == ParseStep

SpecParse == InitParse /\ [][NextParse]_vars

-----------------------------------------------------------------------------
(* A nickname in use: test_nick_in_use, and expect_numeric.                *)

NickTimeout == 2    \* the timeout=5 of expect("433", timeout=5), on the model's clock

Code433 == <<"4", "3", "3">>
\* The lines the server may write to the second Session: the ERR_NICKNAMEINUSE
\* reply, a notice whose prefix holds the digits 433, and a line whose command
\* holds them with a digit more.
InUse == <<":", "s", " ", "4", "3", "3", " ", "*", " ", "n">> \o CRLF
NoticeLine == <<":", "s", "4", "3", "3", " ", "N", "O", "T", "I", "C", "E", " ", "n">> \o CRLF
LongNumeric == <<"4", "3", "3", "0", " ", "n">> \o CRLF
NumericLines == {InUse, NoticeLine, LongNumeric}
NickCommand == <<"N", "I", "C", "K", " ">> \o Nick
UserCommand == <<"U", "S", "E", "R", " ">> \o UserName \o <<" ", "0", " ", "*", " ", ":">> \o RealName

\* A slip in expect: the pattern is looked for in the whole line by default.
NickFieldRaw == "raw"

\* field: str = "command", the default the test leaves in place
NickField == "command"

Answered == \E q \in 1..Len(wire) : wire[q] = InUse

\* bob.connect()
NickConnect == call.name = "" /\ Connect

\* bob.send("NICK uniquenick123"), then bob.send("USER test 0 * :Test")
NickSend ==
    /\ result = Returned
    /\ \/ call.name = "connect" /\ Send(NickCommand)
       \/ call.name = "send" /\ sent = <<WireBytes(NickCommand)>> /\ Send(UserCommand)

\* msg = await bob.expect("433", timeout=5)
NickExpect ==
    /\ call.name = "send"
    /\ sent = <<WireBytes(UserCommand)>>
    /\ Expect(Search(Code433), Some(NickTimeout), NickField)

\* finally: await bob.disconnect()
NickDisconnect == call.name = "expect" /\ Disconnect

\* The server: notices and pings at any time, and the 433 reply once, after
\* NICK was sent; room is left for the reply on the stream.
NickServer ==
    \/ /\ Answered \/ Len(wire) < MaxStream - 1
       /\ \E l \in {NoticeLine, PingLine} : ServerWrite(l)
    \/ /\ call.name \in {"send", "expect"}
       /\ ~Answered
       /\ ServerWrite(InUse)

\* Time passes while recv waits for a line; the steps of the client between
\* two waits take no time.
NickTick == phase = "recv" /\ Tick

NextNick ==
    \/ NickConnect
    \/ NickSend
    \/ NickExpect
    \/ NickDisconnect
    \/ LoopStep
    \/ RecvLine
    \/ RecvTimeout
    \/ NickServer
    \/ NickTick

SpecNick == Init /\ [][NextNick]_vars

\* expect_numeric("433") on a Session the server writes any of the lines to.
NextNumeric ==
    \/ ~hasStream /\ Connect
    \/ \E t \in TimeoutArgs : ExpectNumeric(Code433, t)
    \/ LoopStep
    \/ RecvLine
    \/ RecvEof
    \/ RecvTimeout
    \/ \E l \in NumericLines : ServerWrite(l)
    \/ ServerClose
    \/ Tick

SpecNumeric == Init /\ [][NextNumeric]_vars

-----------------------------------------------------------------------------
(* Replies awaited by whois, join and expect_any.                          *)

Channel == <<"#", "c">>
KeyArgs == {None, Some(<<>>), Some(<<"k">>)}
\* The lines the server may write: the echo of a JOIN, a NAMES reply that lists
\* a nick "joiner" on the channel, and the end of a WHOIS reply.
JoinEcho == <<":", "n", " ", "J", "O", "I", "N", " ", "#", "c">> \o CRLF
NamesReply == <<"3", "5", "3", " ", "#", "c", " ", ":", "j", "o", "i", "n", "e", "r">> \o CRLF
ReplyLines == {JoinEcho, NamesReply, EndOfWhois}
ReplyPatterns == <<<<"3", "1", "8">>, <<"3", "5", "3">>>>

NextReplies ==
    \/ ~hasStream /\ Connect
    \/ Whois(Nick)
    \/ \E k \in KeyArgs : Join(Channel, k)
    \/ \E t \in {None, Some(MaxTimeoutArg)} : ExpectAny(ReplyPatterns, t)
    \/ LoopStep
    \/ RecvLine
    \/ RecvEof
    \/ RecvTimeout
    \/ \E l \in ReplyLines : ServerWrite(l)
    \/ ServerClose
    \/ Tick

SpecReplies == Init /\ [][NextReplies]_vars

-----------------------------------------------------------------------------
(* cleanup() while a task is blocked in a call on a managed Session.       *)

\* cleanup() has run quit() on the Session: its writer is closed.
TornDown == hasStream /\ ~writerOpen

\* cleanup() runs client.quit() in another task while the call of this Session
\* is in progress: QUIT is written, the writer is closed, the flags are
\* cleared, and the reader sees the end of the stream behind the lines it
\* already holds. quit() swallows what send raises, and cleanup() what quit()
\* raises.
CleanupQuit ==
    /\ phase # "idle"
    /\ hasStream
    /\ writerOpen
    /\ sent' = Append(sent, QuitLine)
    /\ writerOpen' = FALSE
    /\ eof' = TRUE
    /\ connected' = FALSE
    /\ registered' = FALSE
    /\ UNCHANGED <<now, hasStream, wire, nread, call, phase, deadline, rdl, acc, result,
                   handed, nread0, cvars, xvars>>

\* The calls a task may be blocked in; none begins after the teardown.
BlockingCall ==
    /\ ~TornDown
    /\ \/ \E t \in TimeoutArgs : Recv(t)
       \/ \E p \in PatternArgs, t \in TimeoutArgs : Expect(p, t, "command")

NextTeardown ==
    \/ ~hasStream /\ Connect
    \/ BlockingCall
    \/ LoopStep
    \/ RecvLine
    \/ RecvEof
    \/ RecvTimeout
    \/ \E l \in {Welcome, PingLine} : ServerWrite(l)
    \/ CleanupQuit
    \/ Tick

SpecTeardown == Init /\ [][NextTeardown]_vars

-----------------------------------------------------------------------------
(* Several Sessions of one manager, each called on its own.                *)

FrameSessions == 2  \* the Sessions the scenario adds
MaxUnread == 1      \* most lines a reader holds unread

SessionOps == {"recv", "cap_ls", "cap_req", "disconnect"}

\* The Session c after one of its operations has returned: recv takes a line
\* out of its reader when there is one, cap_ls stores what the server
\* advertises in self._caps_available, cap_req adds what the server has
\* acknowledged to self._caps_enabled, disconnect closes the writer and clears
\* the flags.
AfterOp(c, op) ==
    CASE op = "recv"    -> IF c.unread > 0 THEN [c EXCEPT !.unread = @ - 1] ELSE c
      [] op = "cap_ls"  -> [c EXCEPT !.caps_available = {Sasl}]
      [] op = "cap_req" -> [c EXCEPT !.caps_enabled = @ \cup {Sasl}]
      [] OTHER          -> [c EXCEPT !.connected = FALSE, !.registered = FALSE,
                                     !.broken = TRUE]

\* A slip in __init__: the capability sets are made once, for the class, and
\* every Session holds the same two sets.
HoldersOfClass(sid, op) == IF op \in {"cap_ls", "cap_req"} THEN 1..Len(sess) ELSE {sid}

\* self._reader, self._writer, self._connected, self._registered,
\* self._caps_available, self._caps_enabled: made in __init__ (and connect), for
\* the instance.
Holders(sid, op) == {sid}

\* The scenario calls an operation of one Session.
SessionCall(sid, op) ==
    /\ scope = "body"
    /\ sid \in 1..Len(sess)
    /\ op # "disconnect" => sess[sid].connected
    /\ sess' = [t \in 1..Len(sess) |->
                   IF t \in Holders(sid, op) THEN AfterOp(sess[t], op) ELSE sess[t]]
    /\ UNCHANGED <<clients, scope, pending, outcome, pvars, svars, cvars, tvars, rvars>>

\* The server writes a line to the connection of one Session.
ServerSends(sid) ==
    /\ scope = "body"
    /\ sid \in 1..Len(sess)
    /\ sess[sid].connected
    /\ sess[sid].unread < MaxUnread
    /\ sess' = [sess EXCEPT ![sid].unread = @ + 1]
    /\ UNCHANGED <<clients, scope, pending, outcome, pvars, svars, cvars, tvars, rvars>>

NextFrame ==
    \/ Aenter
    \/ /\ Len(sess) < FrameSessions
       /\ \E n \in ClientNames, r \in BOOLEAN : AddClient(n, r)
    \/ \E sid \in 1..FrameSessions, op \in SessionOps : SessionCall(sid, op)
    \/ \E sid \in 1..FrameSessions : ServerSends(sid)
    \/ ScenarioEnds
    \/ Aexit

SpecFrame == Init /\ [][NextFrame]_vars

-----------------------------------------------------------------------------
(* Waits whose timeout the caller passes.                                  *)

ExplicitTimeouts == {Some(t) : t \in 0..MaxTimeoutArg}

\* recv, expect and expect_any, each called with a timeout of the caller's.
TimedCall ==
    \E t \in ExplicitTimeouts :
        \/ Recv(t)
        \/ Expect(Search(<<"z">>), t, "command")
        \/ ExpectAny(<<<<"z">>>>, t)

NextTimeout ==
    \/ ~hasStream /\ Connect
    \/ TimedCall
    \/ LoopStep
    \/ RecvLine
    \/ RecvTimeout
    \/ ServerWrite(Welcome)
    \/ Tick

SpecTimeout == Init /\ [][NextTimeout]_vars

-----------------------------------------------------------------------------
(* The capability sets among all the operations of a Session.              *)

OtherCap == <<"a">>

\* Every operation of a Session but cap_ls and cap_req.
PlainCall ==
    \/ Connect
    \/ Disconnect
    \/ Quit
    \/ Send(<<"X">>)
    \/ Part(Channel, None)
    \/ Recv(None)
    \/ RecvAll(MaxTimeoutArg)
    \/ Expect(Search(<<"z">>), None, "command")
    \/ ExpectAny(<<<<"z">>>>, None)
    \/ Register(None)
    \/ Join(Channel, None)
    \/ Whois(Nick)

NextCaps ==
    \/ PlainCall
    \/ CapLs
    \/ \E cs \in {<<Sasl>>, <<OtherCap>>} : CapReq(cs)
    \/ LoopStep
    \/ RecvLine
    \/ RecvEof
    \/ RecvTimeout
    \/ \E l \in {LsLast, Ack} : ServerWrite(l)
    \/ Tick

SpecCaps == Init /\ [][NextCaps]_vars

-----------------------------------------------------------------------------
(* sasl_plain_auth on a socket of its own (test_bouncer_multiclient.py).   *)

\* The byte 0, as one character of a text.
Nul == "NUL"

\* The byte of a character, for the characters of the names and passwords drawn.
ByteOf(c) ==
    CASE c = Nul -> 0
      [] c = "p" -> 112
      [] c = "u" -> 117
      [] c = "w" -> 119

B64Alphabet ==
    <<"A", "B", "C", "D", "E", "F", "G", "H", "I", "J", "K", "L", "M", "N", "O", "P", "Q", "R", "S", "T", "U", "V", "W", "X", "Y", "Z">> \o <<"a", "b", "c", "d", "e", "f", "g", "h", "i", "j", "k", "l", "m", "n", "o", "p", "q", "r", "s", "t", "u", "v", "w", "x", "y", "z">> \o <<"0", "1", "2", "3", "4", "5", "6", "7", "8", "9", "+", "/">>

\* base64.b64encode of a sequence of bytes: three bytes make four characters,
\* the last group is padded with "=".
RECURSIVE B64(_)
B64(bytes) ==
    IF bytes = <<>> THEN <<>>
    ELSE LET b1 == bytes[1]
             b2 == IF Len(bytes) >= 2 THEN bytes[2] ELSE 0
             b3 == IF Len(bytes) >= 3 THEN bytes[3] ELSE 0
             c1 == B64Alphabet[(b1 \div 4) + 1]
             c2 == B64Alphabet[((b1 % 4) * 16 + (b2 \div 16)) + 1]
             c3 == B64Alphabet[((b2 % 16) * 4 + (b3 \div 64)) + 1]
             c4 == B64Alphabet[(b3 % 64) + 1]
         IN  IF Len(bytes) = 1 THEN <<c1, c2, "=", "=">>
             ELSE IF Len(bytes) = 2 THEN <<c1, c2, c3, "=">>
             ELSE <<c1, c2, c3, c4>> \o B64(SubSeq(bytes, 4, Len(bytes)))

\* auth_string.encode(), for text of the characters above
Encode(text) == [i \in 1..Len(text) |-> ByteOf(text[i])]

\* send_line: f"{line}\r\n"
SendLine(line) == line \o CRLF

\* f"AUTHENTICATE {auth_b64}" for auth_string = f"\0{username}\0{password}"
Credentials(username, password) ==
    <<"A", "U", "T", "H", "E", "N", "T", "I", "C", "A", "T", "E", " ">> \o B64(Encode(<<Nul>> \o username \o <<Nul>> \o password))

\* The replies of the server: to CAP REQ, to AUTHENTICATE PLAIN, and to the
\* credentials (logged in, or failed, the text of the failure being the
\* server's own).
CapAck == <<":", "s", " ", "C", "A", "P", " ", "*", " ", "A", "C", "K", " ", ":", "s", "a", "s", "l">> \o CRLF
AuthPlus == <<"A", "U", "T", "H", "E", "N", "T", "I", "C", "A", "T", "E", " ", "+">> \o CRLF
LoggedIn == <<":", "s", " ", "9", "0", "0", " ", "u", " ", ":", "i", "n">> \o CRLF
SaslFail == <<":", "s", " ", "9", "0", "4", " ", "u", " ", ":", "n", "o">> \o CRLF
SaslFailRef == <<":", "s", " ", "9", "0", "4", " ", "u", " ", ":", "e", "9", "0", "0">> \o CRLF
SaslReplies(i) ==
    CASE i = 1 -> {CapAck}
      [] i = 2 -> {AuthPlus}
      [] i = 3 -> {LoggedIn, SaslFail, SaslFailRef}
      [] OTHER -> {}

\* any("900" in line for line in lines)
HasSuccess(ps) == \E i \in 1..Len(ps) : Find(wire[ps[i]], <<"9", "0", "0">>) # 0

\* The socket is connected before sasl_plain_auth is called.
InitSasl ==
    /\ now = 0
    /\ hasStream = TRUE
    /\ writerOpen = TRUE
    /\ connected = TRUE
    /\ registered = FALSE
    /\ wire = <<>>
    /\ nread = 0
    /\ eof = FALSE
    /\ call = NoCall
    /\ phase = "idle"
    /\ deadline = 0
    /\ rdl = 0
    /\ acc = <<>>
    /\ sent = <<>>
    /\ result = NoOutcome
    /\ handed = <<>>
    /\ nread0 = 0
    /\ caps_available = {}
    /\ caps_enabled = {}
    /\ InitManager
    /\ InitChatWith(NoTraffic)
    /\ pin = IdleInput
    /\ pout = NotRun
    /\ InitRunner

\* sasl_plain_auth(sock, username, password), up to its first recv_lines.
SaslBegin(username, password) ==
    /\ phase = "idle"
    /\ call = NoCall
    /\ call' = Call("sasl_plain_auth", Search(<<>>), "", 0, Some(<<username, password>>))
    /\ sent' = <<SendLine(<<"C", "A", "P", " ", "R", "E", "Q", " ", ":", "s", "a", "s", "l">>)>>
    /\ phase' = "cap"
    /\ UNCHANGED <<now, hasStream, writerOpen, connected, registered, wire, nread, eof,
                   deadline, rdl, acc, result, handed, nread0, cvars, xvars>>

\* The positions of the lines of one chunk: those behind from, up to to.
Chunk(from, to) == [i \in 1..(to - from) |-> from + i]

\* recv_lines returns: with the lines up to position k when data has come (the
\* loop ends with the first chunk that holds a line end), with none when the
\* socket timed out. sasl_plain_auth goes on to its next send, or returns.
SaslRecvLines(k) ==
    /\ phase \in {"cap", "mech", "cred", "end"}
    /\ k \in nread..Len(wire)
    /\ k = nread => nread = Len(wire)
    /\ nread' = k
    /\ acc' = Chunk(nread, k)
    /\ CASE phase = "cap" ->
              /\ sent' = Append(sent, SendLine(<<"A", "U", "T", "H", "E", "N", "T", "I", "C", "A", "T", "E", " ", "P", "L", "A", "I", "N">>))
              /\ phase' = "mech"
              /\ UNCHANGED <<call, result>>
         [] phase = "mech" ->
              /\ sent' = Append(sent, SendLine(Credentials(call.arg[1][1], call.arg[1][2])))
              /\ phase' = "cred"
              /\ UNCHANGED <<call, result>>
         [] phase = "cred" ->
              IF HasSuccess(Chunk(nread, k))
              THEN /\ sent' = Append(sent, SendLine(<<"C", "A", "P", " ", "E", "N", "D">>))
                   /\ phase' = "end"
                   /\ UNCHANGED <<call, result>>
              ELSE /\ phase' = "idle"
                   /\ result' = ReturnedBool(FALSE)
                   /\ call' = Call(call.name, Search(<<>>), "", 0, None)
                   /\ sent' = sent
         [] OTHER ->
              /\ phase' = "idle"
              /\ result' = ReturnedBool(TRUE)
              /\ call' = Call(call.name, Search(<<>>), "", 0, None)
              /\ sent' = sent
    /\ UNCHANGED <<now, hasStream, writerOpen, connected, registered, wire, eof,
                   deadline, rdl, handed, nread0, cvars, xvars>>

\* The server answers the lines it was sent, one reply to each, in their order.
SaslServer ==
    /\ Len(wire) < Len(sent)
    /\ \E l \in SaslReplies(Len(wire) + 1) : ServerWrite(l)

NextSasl ==
    \/ \E p \in {<<"p">>, <<"p", "w">>} : SaslBegin(<<"u">>, p)
    \/ \E k \in 0..MaxStream : SaslRecvLines(k)
    \/ SaslServer

SpecSasl == InitSasl /\ [][NextSasl]_vars

-----------------------------------------------------------------------------
(* The safe test runner: main, run_tests and run_test of                     *)
(* scripts/run_irctest_safe.py. A test file is its position in test_files;   *)
(* what the subprocess of a test does is an input of the step that runs it.  *)

MaxFiles == 2
\* The exit codes of the subprocess: passed, failed, no tests collected.
ReturnCodes == {0, 1, 5}
\* What subprocess.run can raise: nothing, the timeout, any other exception.
Raises == {"", "TimeoutExpired", "OSError"}

ovars == <<pvars, svars, cvars, mvars, tvars>>

\* _cleanup_lingering_slircd, its effect on the journal base: with done, both
\* pkill calls ran (SIGTERM, then SIGKILL) and no server process is left;
\* without, a pkill timed out or was not found, the exception is swallowed and
\* a server process that was alive may still be alive.
CleanupLingeringSlircd(base, done) ==
    /\ journal' = Append(base, IF done THEN "killed" ELSE "cut")
    /\ lingering' \in (IF done THEN {FALSE} ELSE {FALSE, lingering})

\* main up to the call of run_tests: a named test file that does not exist and
\* an empty list of test files end with 1, --discover ends with 0.
Main(n, found, discover) ==
    /\ at = "main"
    /\ IF ~found \/ (~discover /\ n = 0)
         THEN exitcode' = Some(1) /\ at' = "exit" /\ UNCHANGED <<test_files, current>>
         ELSE IF discover
                THEN exitcode' = Some(0) /\ at' = "exit" /\ UNCHANGED <<test_files, current>>
                ELSE /\ test_files' = n
                     /\ current' = 1
                     /\ at' = "run_test"
                     /\ UNCHANGED exitcode
    /\ UNCHANGED <<raised, returncode, status, journal, lingering, passed, failed,
                   skipped, errors, ovars>>

\* run_test up to subprocess.run: the pre-cleanup.
RunTestPre(done) ==
    /\ at = "run_test"
    /\ CleanupLingeringSlircd(<<>>, done)
    /\ raised' = ""
    /\ returncode' = None
    /\ status' = ""
    /\ at' = "subprocess"
    /\ UNCHANGED <<test_files, current, passed, failed, skipped, errors, exitcode, ovars>>

\* subprocess.run: the test starts a server, which it may leave alive; it
\* ends with a return code, by the timeout, or by another exception. The
\* timeout returns ERROR from inside the try, the other exception is caught
\* by except Exception: both go to the finally clause, past the post-cleanup.
SubprocessRun(exc, code, leaves) ==
    /\ at = "subprocess"
    /\ journal' = Append(journal, "run")
    /\ lingering' = (lingering \/ leaves)
    /\ raised' = exc
    /\ IF exc = ""
         THEN returncode' = Some(code) /\ at' = "post" /\ UNCHANGED status
         ELSE status' = "ERROR" /\ at' = "finally" /\ UNCHANGED returncode
    /\ UNCHANGED <<test_files, current, passed, failed, skipped, errors, exitcode, ovars>>

\* The status of a return code.
Interpret(code) ==
    IF code = 0 THEN "PASS" ELSE IF code = 5 THEN "SKIP" ELSE "FAIL"

\* run_test after subprocess.run returned: the post-cleanup, the return code.
RunTestPost(done) ==
    /\ at = "post"
    /\ CleanupLingeringSlircd(journal, done)
    /\ status' = Interpret(returncode[1])
    /\ at' = "finally"
    /\ UNCHANGED <<test_files, current, raised, returncode, passed, failed, skipped,
                   errors, exitcode, ovars>>

\* A slip: run_test without its finally clause.
RunTestReturns(done) ==
    /\ at = "finally"
    /\ at' = "returned"
    /\ UNCHANGED <<test_files, current, raised, returncode, status, journal, lingering,
                   passed, failed, skipped, errors, exitcode, ovars>>

\* The finally clause of run_test, then its return.
RunTestFinally(done) ==
    /\ at = "finally"
    /\ CleanupLingeringSlircd(journal, done)
    /\ at' = "returned"
    /\ UNCHANGED <<test_files, current, raised, returncode, status, passed, failed,
                   skipped, errors, exitcode, ovars>>

\* The body of the loop of run_tests after run_test returned, and the next
\* turn of the loop or its end.
RunTests ==
    /\ at = "returned"
    /\ passed' = IF status = "PASS" THEN Append(passed, current) ELSE passed
    /\ failed' = IF status = "FAIL" THEN Append(failed, current) ELSE failed
    /\ skipped' = IF status = "SKIP" THEN Append(skipped, current) ELSE skipped
    /\ errors' = IF status \in {"FAIL", "ERROR"} THEN errors \cup {current} ELSE errors
    /\ IF current < test_files
         THEN current' = current + 1 /\ at' = "run_test"
         ELSE at' = "summary" /\ UNCHANGED current
    /\ UNCHANGED <<test_files, raised, returncode, status, journal, lingering,
                   exitcode, ovars>>

\* The end of main: return 1 if runner.failed else 0.
MainReturn ==
    /\ at = "summary"
    /\ exitcode' = Some(IF failed # <<>> THEN 1 ELSE 0)
    /\ at' = "exit"
    /\ UNCHANGED <<test_files, current, raised, returncode, status, journal, lingering,
                   passed, failed, skipped, errors, ovars>>

NextRunner ==
    \/ \E n \in 0..MaxFiles, found \in BOOLEAN, discover \in BOOLEAN :
          Main(n, found, discover)
    \/ \E done \in BOOLEAN : RunTestPre(done)
    \/ \E exc \in Raises, code \in ReturnCodes, leaves \in BOOLEAN :
          SubprocessRun(exc, code, leaves)
    \/ \E done \in BOOLEAN : RunTestPost(done)
    \/ \E done \in BOOLEAN : RunTestFinally(done)
    \/ RunTests
    \/ MainReturn

SpecRunner == Init /\ [][NextRunner]_vars


-----------------------------------------------------------------------------
(* Properties.                                                             *)

Ping == <<"P", "I", "N", "G">>
InExpect == phase # "idle" /\ call.name \in {"expect", "register"}
InRecvAll == phase # "idle" /\ call.name = "recv_all"
\* The step is a recv that returns None: it leaves its wait without a line read.
RecvReturnsNone == phase = "recv" /\ phase' # "recv" /\ nread' = nread
\* The value the pattern of the call in progress is matched against, for the
\* line at position q.
Matched(q) == RegexSearch(call.pattern, FieldValue(MsgAt(q), call.field))
IsIncreasing(ps) == \A i, j \in 1..Len(ps) : i < j => ps[i] < ps[j]
Run(from, to) == [i \in 1..(to - from) |-> from + i]

\* C1: when expect returns, the message it returns is the first one read since
\* the call began that matches the pattern; every line before it was read and
\* dropped by this call; and no call ever returns a message read before that
\* call began, so a recv_all that follows sees none of the dropped messages.
C1_ExpectReturnsFirstMatch ==
    /\ [](result.kind \in {"msg", "list"} =>
            \A i \in 1..Len(result.msgs) : result.msgs[i] > nread0)
    /\ [][(InExpect /\ phase' = "idle" /\ result'.kind = "msg") =>
            LET p == result'.msgs[1]
            IN  /\ p > nread0
                /\ nread' = p
                /\ Matched(p)
                /\ \A q \in (nread0 + 1)..(p - 1) : MsgAt(q).ok /\ ~Matched(q)]_vars

\* C1 witness: expect has returned the third line read, two lines dropped before it.
C1_Witness ==
    /\ phase = "idle"
    /\ call.name = "expect"
    /\ result.kind = "msg"
    /\ result.msgs[1] = nread0 + 3

C3_ExpectDeadline ==
    /\ [](InExpect => now <= deadline /\ (phase = "recv" => rdl = deadline))
    /\ [][/\ (InExpect /\ phase' # "idle" => deadline' = deadline)
          /\ (phase # "idle" /\ phase' = "idle" /\ result' = Raised("TimeoutError")
                => InExpect /\ phase = "loop" /\ now = deadline)
          /\ (InExpect /\ phase = "loop" /\ now >= deadline /\ phase' # "loop"
                => phase' = "idle" /\ result' = Raised("TimeoutError"))]_vars

\* C3 witness: expect has raised TimeoutError after reading lines that did not match.
C3_Witness ==
    /\ phase = "idle"
    /\ call.name = "expect"
    /\ result = Raised("TimeoutError")
    /\ nread >= nread0 + 2

\* C4: a recv that returns None leaves connected as it was (true) when it timed
\* out and sets it to false when the stream was at its end; recv itself returns
\* None in both cases.
C4_NoneOnTimeoutAndEof ==
    [][RecvReturnsNone =>
          /\ (call.name = "recv" => phase' = "idle" /\ result' = ReturnedNone)
          /\ (eof => ~connected')
          /\ (~eof => now >= rdl /\ connected /\ connected')]_vars

\* C4 witness: recv has returned None on a stream the server closed.
C4_Witness ==
    /\ phase = "idle"
    /\ call.name = "recv"
    /\ result = ReturnedNone
    /\ writerOpen
    /\ ~connected

\* C5: every PING read from the stream is answered with one PONG carrying its
\* first parameter, and is then returned by recv to its caller.
C5_PingAnswered ==
    [][(phase = "recv" /\ nread' = nread + 1 /\ MsgAt(nread + 1).ok
          /\ MsgAt(nread + 1).command = Ping) =>
          /\ sent' = Append(sent, <<"P", "O", "N", "G", " ", ":">>
                                   \o MsgAt(nread + 1).params[1] \o CRLF)
          /\ result'.kind # "raise"
          /\ (call.name = "recv" => result' = ReturnedMsg(nread + 1))]_vars

\* C6: recv_all collects every line it reads, in order; it never waits past its
\* deadline; it returns what it has collected at the first None from recv and
\* when its loop finds the deadline reached, and raises in neither case.
C6_RecvAllWindow ==
    /\ [](InRecvAll => now <= deadline /\ acc = Run(nread0, nread))
    /\ [][/\ (InRecvAll /\ phase' # "idle" => deadline' = deadline)
          /\ (InRecvAll /\ RecvReturnsNone
                => phase' = "idle" /\ result' = ReturnedList(acc))
          /\ (InRecvAll /\ phase = "loop" /\ now >= deadline /\ phase' # "loop"
                => phase' = "idle" /\ result' = ReturnedList(acc))
          /\ (InRecvAll /\ phase' = "idle" /\ result'.kind = "list"
                => handed' = handed \o result'.msgs)]_vars

\* C6 witness: recv_all has returned two messages.
C6_Witness ==
    /\ phase = "idle"
    /\ call.name = "recv_all"
    /\ result.kind = "list"
    /\ Len(result.msgs) = 2

\* C7: parse raises nothing on a malformed line and gives it the empty command.
C7_ParseTotal ==
    (pout # NotRun /\ pin.kind = "malformed") => (pout.ok /\ pout.command = <<>>)

\* C8: of a well-formed line parse gives back the prefix, the command in upper
\* case, the leading parameters and the trailing parameter.
C8_WellFormedParse ==
    (pout # NotRun /\ pin.kind = "wellformed") =>
        /\ pout.ok
        /\ pout.prefix = pin.prefix
        /\ pout.command = Upper(pin.cmd)
        /\ pout.params = pin.mids \o <<pin.trail>>

\* C9: a tag value that was escaped for the wire is parsed back to itself.
C9_UnescapeInverse ==
    (pout # NotRun /\ pin.kind = "tagged") => (pout.ok /\ pout.tags[TagKey] = pin.tagval)

\* C10: register writes PASS (only with a non-empty password), NICK and USER in
\* that order and nothing else before it waits; registered becomes true exactly
\* in the step in which register reads a message whose command is 001 and
\* returns it; register does not wait past its deadline and raises TimeoutError
\* there, and any way it ends other than with the 001 message leaves registered
\* as it was.
C10_Register ==
    /\ [](phase # "idle" /\ call.name = "register" => now <= deadline)
    /\ [][/\ (phase = "idle" /\ phase' # "idle" /\ call'.name = "register" =>
                sent' = (IF call'.arg \in {None, Some(<<>>)} THEN <<>>
                         ELSE <<<<"P", "A", "S", "S", " ">> \o call'.arg[1] \o CRLF>>)
                        \o <<<<"N", "I", "C", "K", " ">> \o Nick \o CRLF,
                             <<"U", "S", "E", "R", " ">> \o UserName
                               \o <<" ", "0", " ", "*", " ", ":">> \o RealName \o CRLF>>)
          /\ (registered' /\ ~registered =>
                /\ phase # "idle" /\ call.name = "register"
                /\ result' = ReturnedMsg(nread + 1)
                /\ MsgAt(nread + 1).command = <<"0", "0", "1">>)
          /\ (phase # "idle" /\ call.name = "register" /\ phase' = "idle" =>
                IF result'.kind = "msg" THEN registered'
                ELSE /\ registered' = registered
                     /\ result'.kind = "raise"
                     /\ (phase = "loop" /\ now >= deadline
                           => result' = Raised("TimeoutError")))]_vars

\* C10 witness: register, called with a password, has returned the 001 message.
C10_Witness ==
    /\ phase = "idle"
    /\ call.name = "register"
    /\ result.kind = "msg"
    /\ registered
    /\ Len(sent) >= 3
    /\ SubSeq(sent[1], 1, 4) = <<"P", "A", "S", "S">>


\* ---- capability negotiation, whois and expect_any (SpecHelpers) ----

InHelperCall == phase # "idle" /\ call.name \in {"cap_ls", "whois"}
\* A CAP LS reply with the continuation marker before its capability list.
IsContinuation(msg) == IsLsReply(msg) /\ Len(msg.params) >= 4 /\ msg.params[3] = <<"*">>
\* The positions of the CAP LS replies read since the call began.
LsRepliesRead == {q \in (nread0 + 1)..nread : IsLsReply(MsgAt(q))}
\* The capability names an LS reply carries, values dropped.
NamesOfReply(msg) == CapNames(msg.params[Len(msg.params)])
SaslAdvertisedAndAcked == {<<LsLast, Ack>>, <<LsMore, LsLast, Ack>>}

\* C11: when cap_ls returns, the last line it read is an LS reply without the
\* continuation marker, and caps_available holds the names of every LS reply it
\* read, the replies with the marker included.
C11_CapLsUnion ==
    (phase = "idle" /\ call.name = "cap_ls" /\ result = ReturnedSet) =>
        /\ IsLsReply(MsgAt(nread)) /\ ~IsContinuation(MsgAt(nread))
        /\ caps_available = UNION {NamesOfReply(MsgAt(q)) : q \in LsRepliesRead}

\* C12: however cap_req ends once it has sent its request, it raises nothing: it
\* returns True with the requested names added to caps_enabled when the reply it
\* read is an ACK, and False with caps_enabled unchanged when the reply is a NAK
\* or no CAP reply came before the timeout.
C12_CapReqOutcome ==
    [][(phase # "idle" /\ call.name = "cap_req" /\ phase' = "idle") =>
          IF nread' = nread + 1 /\ MsgAt(nread + 1).params[2] = <<"A", "C", "K">>
          THEN /\ result' = ReturnedBool(TRUE)
               /\ caps_enabled' = caps_enabled \cup {call.arg[1][i] : i \in 1..Len(call.arg[1])}
          ELSE /\ result' = ReturnedBool(FALSE)
               /\ caps_enabled' = caps_enabled]_vars

\* C13: on a stream that advertises sasl in one LS line or in several and then
\* acknowledges the request, a cap_req("sasl") that follows a cap_ls and gets an
\* answer returns True and leaves sasl in caps_enabled.
C13_SaslNegotiated ==
    (/\ phase = "idle" /\ call.name = "cap_req" /\ result.kind # "raise"
     /\ caps_available # {}
     /\ wire \in SaslAdvertisedAndAcked) =>
        result = ReturnedBool(TRUE) /\ Sasl \in caps_enabled

\* C18: a whois or cap_ls call is over when the timeout it was given at its
\* start has passed, whatever the server sends in the meantime.
C18_HelpersBounded == InHelperCall => now <= HelperTimeout

\* C19: the message expect_any returns for a list of numeric codes has one of
\* the codes as its command.
C19_ExpectAnyCommand ==
    (phase = "idle" /\ call.name = "expect_any" /\ result.kind = "msg") =>
        \E ps \in NumericArgs : \E i \in 1..Len(ps) :
            MsgAt(result.msgs[1]).command = ps[i]


\* ---- the manager and its scope (SpecManager) ----

\* The step is an add_client call: it constructs one more Session.
AddClientStep == Len(sess') = Len(sess) + 1
\* The step is the exit of the scope.
ScopeExitStep == scope # "exited" /\ scope' = "exited"
Managed == {clients[i].sid : i \in 1..Len(clients)}

\* C14: an add_client for a name the manager already holds fails, and leaves the
\* entry of that name and its Session as they were.
C14_AddClientExistingName ==
    [][(AddClientStep /\ EntryOf(sess'[Len(sess')].name) # 0) =>
          /\ pending' # NoException
          /\ clients' = clients
          /\ \A sid \in 1..Len(sess) : sess'[sid] = sess[sid]]_vars

\* C15: at the exit of the scope every Session the manager holds is torn down,
\* whether or not writing to another one or to itself fails: QUIT is written to
\* it if its connection still takes writes, then the connection is closed, and
\* its connected and registered flags are false afterwards; the Sessions the
\* manager does not hold are not touched; the dict is cleared; and cleanup
\* raises nothing, so the scope ends with what the block ended with.
C15_CleanupTearsDownAll ==
    [][ScopeExitStep =>
          /\ \A sid \in Managed :
                /\ ~sess'[sid].connected
                /\ ~sess'[sid].registered
                /\ sess'[sid].log = sess[sid].log
                        \o (IF sess[sid].broken THEN <<>> ELSE <<"QUIT">>) \o <<"close">>
          /\ \A sid \in (1..Len(sess)) \ Managed : sess'[sid] = sess[sid]
          /\ clients' = <<>>
          /\ outcome' \in {NoException} \cup ScenarioExceptions \cup {"ConnectionError"}
          /\ outcome' = NoException => pending = NoException]_vars

\* C15 witness: the scope has ended with two Sessions torn down, the first of
\* which no longer took writes.
C15_Witness ==
    /\ scope = "exited"
    /\ Len(sess) >= 2
    /\ sess[1].log = <<"close">>
    /\ sess[2].log = <<"QUIT", "close">>

\* C16: after the scope has ended no Session the manager constructed is connected.
C16_NoSessionLeftConnected ==
    scope = "exited" => \A sid \in 1..Len(sess) : ~sess[sid].connected

\* C17: the scope ends with the exception the block raised, and with none if the
\* block raised none, and by then cleanup has run: the dict is empty.
C17_ScenarioFailurePropagates ==
    /\ [](scope = "exited" => outcome = pending /\ clients = <<>>)
    /\ [][ScopeExitStep => outcome' = pending /\ pending' = pending]_vars

\* C17 witness: the scope has ended with the AssertionError of the block, a
\* Session having been torn down on the way.
C17_Witness ==
    /\ scope = "exited"
    /\ pending = "AssertionError"
    /\ outcome = "AssertionError"
    /\ \E sid \in 1..Len(sess) : sess[sid].log = <<"QUIT", "close">>


\* ---- two Sessions on one channel (SpecChat) ----

TestOver == step > Len(Script)

\* C20: bob's expect("PRIVMSG") ends, and it ends by returning the PRIVMSG that
\* alice sent, never by raising TimeoutError, however the server's deliveries
\* to the two streams interleave and whatever the joins left on the way; what
\* bob read and dropped before it is traffic of the joins.
C20_PrivmsgReachesBob ==
    /\ [](TestOver =>
            /\ got.kind = "msg"
            /\ streams["bob"][got.msgs[1]] = PrivmsgLine
            /\ readPos["bob"] = got.msgs[1])
    /\ [](got.kind # "raise")
    /\ <>TestOver

\* C20 witness: bob's drain returned nothing, and his expect has read and dropped
\* the two lines the joins had left on the way; the PRIVMSG is the next line.
C20_Witness ==
    /\ step = 4
    /\ wait = "loop"
    /\ got = ReturnedList(<<>>)
    /\ readPos["bob"] = 2
    /\ Len(streams["bob"]) = 3
    /\ streams["bob"][3] = PrivmsgLine

\* ---- one Session: the ends of a wait, the bytes of send, the flag ----

\* C22: a wait of expect on a Session that has a stream ends in one of two
\* ways only: it returns a message, or it raises TimeoutError with the
\* deadline reached. (A recv that returns None, on a timeout or at the end of
\* the stream, is not an end of the wait.)
C22_WaitEndsByMatchOrDeadline ==
    [][(InExpect /\ hasStream /\ phase' = "idle") =>
          \/ result'.kind = "msg"
          \/ result' = Raised("TimeoutError") /\ now >= deadline]_vars

\* C27: send writes the same bytes, the command and one CRLF, whether the
\* command is passed bare, with CRLF or with LF at its end.
C27_SendOneWireLine ==
    (call.name = "send" /\ result = Returned) => sent = <<<<"X">> \o CRLF>>

\* C28: a Session that had a stream and whose connected flag is false keeps the
\* flag false in every later step.
C28_ConnectedNeverReturns ==
    [][(hasStream /\ ~connected) => ~connected']_vars


\* ---- a nickname in use (SpecNick), expect_numeric (SpecNumeric) ----

\* C21: the Session that asks for a nickname in use never becomes registered.
\* Once the server's 433 reply is on the stream with the deadline of
\* expect("433") not reached, no time passes before expect returns: it returns
\* the 433 reply, the last line read, every line before it read and dropped.
\* expect raises TimeoutError only when it has read no 433 reply, and nothing
\* else ends it.
C21_NickInUse ==
    /\ [](~registered)
    /\ [](InExpect => now <= deadline)
    /\ []((call.name = "expect" /\ phase = "idle") =>
            IF result.kind = "msg"
            THEN /\ wire[result.msgs[1]] = InUse
                 /\ MsgAt(result.msgs[1]).command = Code433
                 /\ nread = result.msgs[1]
                 /\ handed = result.msgs
            ELSE /\ result = Raised("TimeoutError")
                 /\ \A q \in 1..nread : wire[q] # InUse)
    /\ [][(InExpect /\ Answered /\ now < deadline) =>
            \/ now' = now /\ phase' # "idle"
            \/ phase' = "idle" /\ result'.kind = "msg"]_vars

\* C21 witness: expect has returned the 433 reply after it read and dropped a
\* notice that holds the digits 433 in its prefix.
C21_Witness ==
    /\ call.name = "expect"
    /\ phase = "idle"
    /\ result.kind = "msg"
    /\ result.msgs[1] = nread0 + 2
    /\ wire[nread0 + 1] = NoticeLine

\* C26: when expect_numeric(code) returns, the command of the message it
\* returns is the code itself, and no line it read before had that command;
\* when it raises TimeoutError, no line it read had that command. Lines that
\* hold the code inside the command, or somewhere else, are dropped.
C26_ExpectNumericExact ==
    [][(InExpect /\ phase' = "idle") =>
          /\ result'.kind = "msg" =>
                /\ MsgAt(result'.msgs[1]).command = Code433
                /\ \A q \in (nread0 + 1)..(result'.msgs[1] - 1) :
                      MsgAt(q).command # Code433
          /\ result' = Raised("TimeoutError") =>
                \A q \in (nread0 + 1)..nread' : MsgAt(q).command # Code433]_vars

\* C26 witness: expect_numeric has returned the 433 reply after it dropped a
\* line with the command 4330 and a notice with 433 in its prefix.
C26_Witness ==
    /\ call.name = "expect"
    /\ phase = "idle"
    /\ result.kind = "msg"
    /\ result.msgs[1] = nread0 + 3
    /\ wire[nread0 + 1] = LongNumeric
    /\ wire[nread0 + 2] = NoticeLine


\* ---- whois, join and expect_any (SpecReplies) ----

InWhois == phase # "idle" /\ call.name = "whois"
InJoin == phase # "idle" /\ call.name = "join"
InExpectAny == phase # "idle" /\ call.name = "expect_any"
EndsReply(q) == MsgAt(q).command \in {<<"3", "1", "8">>, <<"4", "0", "1">>}

\* C23: whois has sent WHOIS nick; when it ends it returns a list and does not
\* raise; the list holds every line read since the call began, in the order of
\* the stream; no message but the last is a 318 or a 401; the last one is,
\* unless the call ended on a recv that returned None.
C23_WhoisCollects ==
    /\ [](InWhois => sent = <<WireBytes(<<"W", "H", "O", "I", "S", " ">> \o Nick)>>)
    /\ [][(InWhois /\ phase' = "idle") =>
            /\ result'.kind = "list"
            /\ result'.msgs = Run(nread0, nread')
            /\ \A i \in 1..(Len(result'.msgs) - 1) : ~EndsReply(result'.msgs[i])
            /\ IF nread' = nread
               THEN \A i \in 1..Len(result'.msgs) : ~EndsReply(result'.msgs[i])
               ELSE EndsReply(nread')]_vars

\* C23 witness: whois has returned three messages, the third being the 318.
C23_Witness ==
    /\ call.name = "whois"
    /\ phase = "idle"
    /\ result = ReturnedList(<<nread0 + 1, nread0 + 2, nread0 + 3>>)
    /\ wire[nread0 + 3] = EndOfWhois

\* The line at position q holds JOIN and, behind it, the channel.
JoinThenChannel(q) ==
    LET u == Upper(MsgAt(q).raw)
        i == Find(u, <<"J", "O", "I", "N">>)
    IN  i # 0 /\ Find(SubSeq(u, i + 4, Len(u)), Upper(Channel)) # 0

\* The line at position q holds JOIN and the channel, in any order.
JoinAndChannel(q) ==
    LET u == Upper(MsgAt(q).raw)
    IN  Find(u, <<"J", "O", "I", "N">>) # 0 /\ Find(u, Upper(Channel)) # 0

\* C24: join writes JOIN with the channel, and the key behind it when one is
\* given. When it returns, the message is the first line read since the call
\* began that holds JOIN with the channel name behind it (whatever the case of
\* the letters), the lines before it having been read and dropped; when it
\* raises TimeoutError the deadline is reached and no line read was such a line.
C24_JoinReturnsEcho ==
    /\ [](InJoin => sent \in {<<WireBytes(<<"J", "O", "I", "N", " ", "#", "c">>)>>, <<WireBytes(<<"J", "O", "I", "N", " ", "#", "c", " ", "k">>)>>})
    /\ [][(InJoin /\ phase' = "idle") =>
            /\ result'.kind = "msg" =>
                  /\ nread' = result'.msgs[1]
                  /\ JoinThenChannel(result'.msgs[1])
                  /\ \A q \in (nread0 + 1)..(result'.msgs[1] - 1) : ~JoinThenChannel(q)
            /\ result' = Raised("TimeoutError") =>
                  /\ now >= deadline
                  /\ \A q \in (nread0 + 1)..nread' : ~JoinThenChannel(q)]_vars

\* C24 as stated: the message join returns is the first line read since the
\* call began that holds JOIN and the channel name.
C24_JoinReturnsFirstWithBoth ==
    [][(InJoin /\ phase' = "idle" /\ result'.kind = "msg") =>
          /\ JoinAndChannel(result'.msgs[1])
          /\ \A q \in (nread0 + 1)..(result'.msgs[1] - 1) : ~JoinAndChannel(q)]_vars

\* C24 witness: join has returned the echo of the JOIN after it read and
\* dropped a NAMES reply that holds the channel and, behind it, "join".
C24_Witness ==
    /\ call.name = "join"
    /\ phase = "idle"
    /\ result = ReturnedMsg(nread0 + 2)
    /\ wire[nread0 + 1] = NamesReply
    /\ wire[nread0 + 2] = JoinEcho

\* One of the patterns of the call in progress occurs in the line at position q.
MatchesAny(q) ==
    \E i \in 1..Len(call.arg[1]) : Find(Upper(MsgAt(q).raw), Upper(call.arg[1][i])) # 0

\* C25: expect_any has one deadline, fixed when the call begins, and every recv
\* it makes expires at it. When it returns, the message is the first line read
\* since the call began in which one of the patterns occurs, the lines before
\* it having been read and dropped; TimeoutError is raised when the loop finds
\* the deadline reached, and then no line read held a pattern.
C25_ExpectAnyFirstMatch ==
    /\ [](InExpectAny => now <= deadline /\ (phase = "recv" => rdl = deadline))
    /\ [][/\ (InExpectAny /\ phase' # "idle") => deadline' = deadline
          /\ (InExpectAny /\ phase' = "idle" /\ result'.kind = "msg") =>
                /\ nread' = result'.msgs[1]
                /\ handed' = Append(handed, result'.msgs[1])
                /\ MatchesAny(result'.msgs[1])
                /\ \A q \in (nread0 + 1)..(result'.msgs[1] - 1) : ~MatchesAny(q)
          /\ (InExpectAny /\ phase' = "idle" /\ result' = Raised("TimeoutError")) =>
                /\ now = deadline
                /\ \A q \in (nread0 + 1)..nread' : ~MatchesAny(q)
          /\ (InExpectAny /\ phase = "loop" /\ now >= deadline /\ phase' # "loop") =>
                phase' = "idle" /\ result' = Raised("TimeoutError")]_vars

\* C25 witness: expect_any has returned a line that holds the second pattern
\* after it read and dropped a line that holds neither.
C25_Witness ==
    /\ call.name = "expect_any"
    /\ phase = "idle"
    /\ result = ReturnedMsg(nread0 + 2)
    /\ wire[nread0 + 1] = JoinEcho
    /\ wire[nread0 + 2] = NamesReply


\* ---- cleanup() against a blocked call (SpecTeardown) ----

\* C29: after cleanup() has torn the Session down under a call in progress,
\* connected is false and stays false, the call does not wait beyond its own
\* deadline, and it ends by returning or by raising TimeoutError, not by any
\* other exception.
C29_CleanupUnblocks ==
    /\ [](TornDown => ~connected)
    /\ [](TornDown /\ phase = "recv" => now <= rdl)
    /\ [][(TornDown /\ phase # "idle" /\ phase' = "idle") =>
            \/ result'.kind # "raise"
            \/ result' = Raised("TimeoutError")]_vars


\* ---- Sessions side by side (SpecFrame) ----

C36_RegisteredImpliesConnected == registered => connected

\* The Session was never connected, or this side has closed it.
NotOpen == ~hasStream \/ ~writerOpen

\* C39: a send or a recv called on a Session that was never connected, or that
\* disconnect() or quit() has closed, raises ConnectionError (a subclass of it
\* included) at once, writes nothing, reads nothing and changes nothing.
C39_CallsNeedConnection ==
    [][(phase = "idle" /\ NotOpen /\ call' # call /\ call'.name \in {"send", "recv"}) =>
          /\ phase' = "idle"
          /\ result' \in {Raised("ConnectionError"), Raised("ConnectionResetError")}
          /\ sent' = <<>>
          /\ UNCHANGED <<hasStream, writerOpen, connected, registered, wire, nread, eof,
                         handed>>]_vars

\* The Session is torn down: nothing is left for disconnect() to do.
TornAlready == ~writerOpen /\ ~connected /\ ~registered /\ (hasStream => eof)

\* C40: disconnect and quit return from every state of a Session and leave
\* connected and registered false, the writer closed, and what was read and
\* handed on as it was; called on a Session that is torn down already, they
\* write nothing and change nothing of it.
C40_TeardownTotalIdempotent ==
    [][(phase = "idle" /\ phase' = "idle" /\ call'.name \in {"disconnect", "quit"}) =>
          /\ result' = Returned
          /\ ~connected' /\ ~registered' /\ ~writerOpen'
          /\ TornAlready'
          /\ UNCHANGED <<hasStream, wire, nread, handed, cvars>>
          /\ TornAlready => sent' = <<>> /\ UNCHANGED <<writerOpen, connected, registered, eof>>]_vars

\* C40 witness: quit() has returned on a Session that disconnect() had closed
\* before, and has written nothing.
C40_Witness ==
    /\ call.name = "quit"
    /\ phase = "idle"
    /\ result = Returned
    /\ sent = <<>>
    /\ hasStream
    /\ TornAlready


\* ---- the caller's timeout (SpecTimeout) ----

\* C38: when every call is given a timeout of the caller's, none above
\* MaxTimeoutArg, the timeout a call works with is never above MaxTimeoutArg
\* (it is never the Session's default, which is larger), and no call is still
\* waiting when more time than that has passed.
C38_CallerTimeoutUsed ==
    phase # "idle" => call.timeout <= MaxTimeoutArg /\ now <= MaxTimeoutArg


\* ---- the capability sets (SpecCaps) ----

\* C31: caps_available changes only in a step of cap_ls and caps_enabled only
\* in a step of cap_req; every step of every other operation leaves both sets
\* as they were.
C31_CapsChangedByHelpersOnly ==
    [][/\ caps_available' # caps_available => phase # "idle" /\ call.name = "cap_ls"
       /\ caps_enabled' # caps_enabled => phase # "idle" /\ call.name = "cap_req"]_vars

\* C31 witness: disconnect() has returned on a Session that holds an advertised
\* and an enabled capability.
C31_Witness ==
    /\ call.name = "disconnect"
    /\ phase = "idle"
    /\ ~connected
    /\ caps_available = {Sasl}
    /\ caps_enabled = {Sasl}

\* C37: every name in caps_enabled is listed in an ACK the Session has read.
C37_EnabledWereAcknowledged ==
    \A n \in caps_enabled :
        \E q \in 1..nread :
            /\ IsAck(MsgAt(q))
            /\ n \in CapNames(MsgAt(q).params[Len(MsgAt(q).params)])


\* ---- the raw line of a message (SpecParse) ----

\* C33: the raw field of a parsed message is the line it was parsed from
\* without the CR and LF at its end.
C33_RawWithoutTerminator ==
    (pout # NotRun /\ pout.ok) => pout.raw = RStrip(pin.rawline, {"\r", "\n"})


\* ---- SASL PLAIN (SpecSasl) ----

\* What sasl_plain_auth sends, in order, for the user u and the password pw or p.
SaslScript(payload) ==
    <<SendLine(<<"C", "A", "P", " ", "R", "E", "Q", " ", ":", "s", "a", "s", "l">>), SendLine(<<"A", "U", "T", "H", "E", "N", "T", "I", "C", "A", "T", "E", " ", "P", "L", "A", "I", "N">>),
      SendLine(<<"A", "U", "T", "H", "E", "N", "T", "I", "C", "A", "T", "E", " ">> \o payload), SendLine(<<"C", "A", "P", " ", "E", "N", "D">>)>>

\* C32: what sasl_plain_auth has sent is a beginning of: CAP REQ :sasl,
\* AUTHENTICATE PLAIN, AUTHENTICATE with the base64 of NUL u NUL password, CAP
\* END. It returns True only when the server's reply to the credentials is the
\* numeric 900, and it has sent CAP END exactly when it returns True; it
\* returns True when it has read that reply in answer to the credentials.
C32_SaslPlainHandshake ==
    /\ [](call.name = "sasl_plain_auth" =>
            \E payload \in {<<"A", "H", "U", "A", "c", "A", "=", "=">>, <<"A", "H", "U", "A", "c", "H", "c", "=">>} :
                sent = SubSeq(SaslScript(payload), 1, Len(sent)))
    /\ []((call.name = "sasl_plain_auth" /\ phase = "idle") =>
            /\ result = ReturnedBool(TRUE) =>
                  Len(wire) >= 3 /\ MsgAt(3).command = <<"9", "0", "0">> /\ Len(sent) = 4
            /\ result = ReturnedBool(FALSE) => Len(sent) = 3)
    /\ [][(phase = "cred" /\ nread < 3 /\ nread' >= 3 /\ MsgAt(3).command = <<"9", "0", "0">>) =>
            phase' = "end"]_vars


\* C34: main returns 0 only when every test file that was run passed or was
\* skipped; when a test file ended as FAIL or as ERROR (a timeout of the test
\* included), main returns 1.
C34_ExitCodeReflectsFailures ==
    exitcode # None /\ current > 0 =>
        /\ exitcode = Some(0) => failed = <<>> /\ errors = {}
        /\ failed # <<>> \/ errors # {} => exitcode = Some(1)

\* C35: when run_test returns, whichever way the test ended (pass, fail, skip,
\* timeout, another exception), _cleanup_lingering_slircd has been called after
\* subprocess.run ended and before anything else happens; when its two pkill
\* calls ran, no server process is alive at that point, so none is when the
\* next test file is started.
C35_CleanupOnEveryPath ==
    at = "returned" =>
        /\ \E i \in 1..Len(journal) : journal[i] = "run"
        /\ journal[Len(journal)] \in {"killed", "cut"}
        /\ journal[Len(journal)] = "killed" => ~lingering

\* C35 witness: a test that left a server alive and ran into the timeout has
\* returned, a second test file is still to be started.
C35_Witness ==
    /\ at = "returned"
    /\ raised = "TimeoutExpired"
    /\ status = "ERROR"
    /\ current < test_files
    /\ journal = <<"killed", "run", "killed">>
    /\ ~lingering

=============================================================================
